---- MODULE Spec2Model ----
(***************************************************************************)
(* A model of the circuit compiler of qiskit/_compiler.py: the batch       *)
(* driver compile() and the per-circuit pipeline compile_circuit(), with   *)
(* the gate catalog of qiskit/extensions/standard.  The DAG builder, the   *)
(* unroller and the mapper passes live in modules the compiler imports     *)
(* (qiskit.dagcircuit, qiskit.unroll, qiskit.mapper); they are modelled    *)
(* from their written specification.                                       *)
(***************************************************************************)
EXTENDS Integers, Sequences, FiniteSets, TLC

(* ------------------------------------------------------------------ *)
(* Bounds of the model                                                 *)
(* ------------------------------------------------------------------ *)
\* longest operation list of a circuit drawn for the measurement scan
MaxOps == 3
\* longest operation list of a circuit drawn for the unroller
MaxGates == 2
\* longest list of two-qubit operations drawn for the router
MaxCx == 2
\* largest number of circuits in a batch
MaxBatch == 2
\* number of routing trials (the code asks for 20)
NumTrials == 3
\* the unroller's recursion bound
MaxDepth == 2

(* ------------------------------------------------------------------ *)
(* Python values                                                       *)
(* ------------------------------------------------------------------ *)
\* None, and a present value; both records, so that any two compare
None == [tag |-> "None", val |-> <<>>]
Some(v) == [tag |-> "Some", val |-> v]
\* the coupling-map sentinel string
AllToAll == [tag |-> "str", val |-> "all-to-all"]
IsNone(x) == x.tag = "None"
\* a mapping, kept as the list of its items (key, value) in insertion order
Dict(items) == [tag |-> "dict", val |-> items]
\* Python truthiness of None / a list / a mapping / a non-empty string
Truthy(x) == x.tag = "str" \/ (x.tag \in {"Some", "dict"} /\ x.val # <<>>)

Range(s) == {s[i] : i \in DOMAIN s}
Min(a, b) == IF a < b THEN a ELSE b
Lowest(S) == CHOOSE n \in S : \A m \in S : n <= m

\* all sequences over S of length at most n
RECURSIVE SeqsUpTo(_, _)
SeqsUpTo(S, n) ==
    IF n = 0 THEN {<<>>}
    ELSE LET shorter == SeqsUpTo(S, n - 1)
         IN shorter \cup {Append(s, x) : s \in {t \in shorter : Len(t) = n - 1}, x \in S}

\* list.insert(i, x): i is a 0-based index, clamped to the list's length
ListInsert(list, i, x) ==
    LET k == Min(i, Len(list))
    IN SubSeq(list, 1, k) \o <<x>> \o SubSeq(list, k + 1, Len(list))

(* ------------------------------------------------------------------ *)
(* Instructions                                                        *)
(* ------------------------------------------------------------------ *)
\* an instruction: its name, its qubit operands (indices into the one
\* quantum register) and its parameters
Op(name, qargs, params) == [name |-> name, qargs |-> qargs, params |-> params]
Gate1(name, q) == Op(name, <<q>>, <<>>)
Gate2(name, a, b) == Op(name, <<a, b>>, <<>>)
Measure(q) == Op("measure", <<q>>, <<>>)
Barrier(q) == Op("barrier", <<q>>, <<>>)
Reset(q) == Op("reset", <<q>>, <<>>)

\* isinstance(instruction, Measure)
IsMeasure(op) == op.name = "measure"
\* isinstance(instruction, Gate): measure, barrier and reset are
\* instructions that are not gates
IsGate(op) == op.name \notin {"measure", "barrier", "reset"}

(* ------------------------------------------------------------------ *)
(* The gate catalog: decomposition rules                               *)
(* ------------------------------------------------------------------ *)
\* the gates whose class has a _define method
DefinedGates ==
    {"h", "s", "sdg", "y", "z", "u1", "swap", "cz", "cy",
     "ccx", "cswap", "ch", "cu3", "cu1", "crz", "cry", "rx", "rz", "rv"}
HasDefinition(name) == name \in DefinedGates
\* no gate is opaque
NoOpaqueGates == {}

\* "should not be optimized or unrolled (it is an opaque gate)"
OpaqueGates == {"id"}

\* the rule of h written with u3: gate h a { u3(pi/2,0,pi) a; }
HGate_define_u3(q) == <<Op("u3", <<q[1]>>, <<"pi/2", "0", "pi">>)>>
\* gate h a { u2(0,pi) a; }
HGate_define(q) == <<Op("u2", <<q[1]>>, <<"0", "pi">>)>>
\* gate s a { u1(pi/2) a; }
SGate_define(q) == <<Op("u1", <<q[1]>>, <<"pi/2">>)>>
\* gate sdg a { u1(-pi/2) a; }
SdgGate_define(q) == <<Op("u1", <<q[1]>>, <<"-pi/2">>)>>
YGate_define(q) == <<Op("u3", <<q[1]>>, <<"pi", "pi/2", "pi/2">>)>>
ZGate_define(q) == <<Op("u1", <<q[1]>>, <<"pi">>)>>
U1Gate_define(q, params) == <<Op("u3", <<q[1]>>, <<"0", "0", params[1]>>)>>
\* the three cx of a swap all point the same way
SwapGate_define_one_way(q) ==
    <<Gate2("cx", q[1], q[2]), Gate2("cx", q[1], q[2]), Gate2("cx", q[1], q[2])>>

\* gate swap a,b { cx a,b; cx b,a; cx a,b; }   (phase angle zero)
SwapGate_define(q) ==
    <<Gate2("cx", q[1], q[2]), Gate2("cx", q[2], q[1]), Gate2("cx", q[1], q[2])>>
\* gate cz a,b { h b; cx a,b; h b; }
CzGate_define(q) == <<Gate1("h", q[2]), Gate2("cx", q[1], q[2]), Gate1("h", q[2])>>
\* gate cy a,b { sdg b; cx a,b; s b; }
CyGate_define(q) == <<Gate1("sdg", q[2]), Gate2("cx", q[1], q[2]), Gate1("s", q[2])>>

\* angles are symbols: the expressions a rule builds from a gate's parameters
Half(p) == CASE p = "theta" -> "theta/2" [] p = "phi" -> "phi/2" [] p = "lambda" -> "lambda/2"
NegHalf(p) == CASE p = "theta" -> "-theta/2" [] p = "phi" -> "-phi/2" [] p = "lambda" -> "-lambda/2"
HalfSum(a, b) == CASE a = "lambda" /\ b = "phi" -> "(lambda+phi)/2"
HalfDiff(a, b) == CASE a = "lambda" /\ b = "phi" -> "(lambda-phi)/2"
NegHalfSum(a, b) == CASE a = "phi" /\ b = "lambda" -> "-(phi+lambda)/2"

\* ccx is defined through cswap
ToffoliGate_define_by_cswap(q) ==
    <<Gate1("h", q[3]), Op("cswap", <<q[1], q[2], q[3]>>, <<>>), Gate1("h", q[3])>>
\* gate ccx a,b,c { h c; cx b,c; tdg c; cx a,c; t c; cx b,c; tdg c; cx a,c;
\*                  t b; t c; h c; cx a,b; t a; tdg b; cx a,b; }
ToffoliGate_define(q) ==
    <<Gate1("h", q[3]), Gate2("cx", q[2], q[3]), Gate1("tdg", q[3]), Gate2("cx", q[1], q[3]),
      Gate1("t", q[3]), Gate2("cx", q[2], q[3]), Gate1("tdg", q[3]), Gate2("cx", q[1], q[3]),
      Gate1("t", q[2]), Gate1("t", q[3]), Gate1("h", q[3]), Gate2("cx", q[1], q[2]),
      Gate1("t", q[1]), Gate1("tdg", q[2]), Gate2("cx", q[1], q[2])>>
\* gate cswap a,b,c { cx c,b; ccx a,b,c; cx c,b; }
FredkinGate_define(q) ==
    <<Gate2("cx", q[3], q[2]), Op("ccx", <<q[1], q[2], q[3]>>, <<>>), Gate2("cx", q[3], q[2])>>
\* gate ch a,b { s b; h b; t b; cx a,b; tdg b; h b; sdg b; }
CHGate_define(q) ==
    <<Gate1("s", q[2]), Gate1("h", q[2]), Gate1("t", q[2]), Gate2("cx", q[1], q[2]),
      Gate1("tdg", q[2]), Gate1("h", q[2]), Gate1("sdg", q[2])>>
\* gate cu3(theta,phi,lambda) c,t { u1((lambda+phi)/2) c; u1((lambda-phi)/2) t; cx c,t;
\*     u3(-theta/2,0,-(phi+lambda)/2) t; cx c,t; u3(theta/2,phi,0) t; }
Cu3Gate_define(q, params) ==
    <<Op("u1", <<q[1]>>, <<HalfSum(params[3], params[2])>>),
      Op("u1", <<q[2]>>, <<HalfDiff(params[3], params[2])>>),
      Gate2("cx", q[1], q[2]),
      Op("u3", <<q[2]>>, <<NegHalf(params[1]), "0", NegHalfSum(params[2], params[3])>>),
      Gate2("cx", q[1], q[2]),
      Op("u3", <<q[2]>>, <<Half(params[1]), params[2], "0">>)>>
\* gate cu1(lambda) a,b { u1(lambda/2) a; cx a,b; u1(-lambda/2) b; cx a,b; u1(lambda/2) b; }
Cu1Gate_define(q, params) ==
    <<Op("u1", <<q[1]>>, <<Half(params[1])>>), Gate2("cx", q[1], q[2]),
      Op("u1", <<q[2]>>, <<NegHalf(params[1])>>), Gate2("cx", q[1], q[2]),
      Op("u1", <<q[2]>>, <<Half(params[1])>>)>>
\* gate crz(lambda) a,b { u1(lambda/2) b; cx a,b; u1(-lambda/2) b; cx a,b; }
CrzGate_define(q, params) ==
    <<Op("u1", <<q[2]>>, <<Half(params[1])>>), Gate2("cx", q[1], q[2]),
      Op("u1", <<q[2]>>, <<NegHalf(params[1])>>), Gate2("cx", q[1], q[2])>>
\* gate cry(lambda) a,b { u3(lambda/2,0,0) b; cx a,b; u3(-lambda/2,0,0) b; cx a,b; }
CRYGate_define(q, params) ==
    <<Op("u3", <<q[2]>>, <<Half(params[1]), "0", "0">>), Gate2("cx", q[1], q[2]),
      Op("u3", <<q[2]>>, <<NegHalf(params[1]), "0", "0">>), Gate2("cx", q[1], q[2])>>
\* gate rx(theta) a { r(theta, 0) a; }
RXGate_define(q, params) == <<Op("r", <<q[1]>>, <<params[1], "0">>)>>
\* gate rz(phi) a { u1(phi) a; }
RZGate_define(q, params) == <<Op("u1", <<q[1]>>, <<params[1]>>)>>
\* rv with symbolic parameters and seq 'zxz': rz, rx, rz by the angles of the rotation
RVGate_define(q) ==
    <<Op("rz", <<q[1]>>, <<"phi">>), Op("rx", <<q[1]>>, <<"theta">>),
      Op("rz", <<q[1]>>, <<"lambda">>)>>

\* a gate's definition with its local frame q[0], q[1], ... bound to the
\* gate's own operands
Definition(op) ==
    CASE op.name = "h" -> HGate_define(op.qargs)
      [] op.name = "s" -> SGate_define(op.qargs)
      [] op.name = "sdg" -> SdgGate_define(op.qargs)
      [] op.name = "y" -> YGate_define(op.qargs)
      [] op.name = "z" -> ZGate_define(op.qargs)
      [] op.name = "u1" -> U1Gate_define(op.qargs, op.params)
      [] op.name = "swap" -> SwapGate_define(op.qargs)
      [] op.name = "cz" -> CzGate_define(op.qargs)
      [] op.name = "cy" -> CyGate_define(op.qargs)
      [] op.name = "ccx" -> ToffoliGate_define(op.qargs)
      [] op.name = "cswap" -> FredkinGate_define(op.qargs)
      [] op.name = "ch" -> CHGate_define(op.qargs)
      [] op.name = "cu3" -> Cu3Gate_define(op.qargs, op.params)
      [] op.name = "cu1" -> Cu1Gate_define(op.qargs, op.params)
      [] op.name = "crz" -> CrzGate_define(op.qargs, op.params)
      [] op.name = "cry" -> CRYGate_define(op.qargs, op.params)
      [] op.name = "rx" -> RXGate_define(op.qargs, op.params)
      [] op.name = "rz" -> RZGate_define(op.qargs, op.params)
      [] op.name = "rv" -> RVGate_define(op.qargs)
      [] OTHER -> <<>>

(* ------------------------------------------------------------------ *)
(* DAG builder and unroller                                            *)
(* ------------------------------------------------------------------ *)
NoError == [kind |-> "none", backend |-> "", circuit |-> "", gate |-> ""]
Error(kind, backend, circuit, gate) ==
    [kind |-> kind, backend |-> backend, circuit |-> circuit, gate |-> gate]

\* A DAG is kept as its nodes in a topological order (the order they were
\* linked in); the chain of a wire is the subsequence of the nodes that
\* touch the wire.
WireChain(ops, w) == SelectSeq(ops, LAMBDA op : w \in Range(op.qargs))

\* The links of a DAG.  A link (w, m, n) says that on wire w node n comes
\* next after node m; node 0 is the wire's input.  The builder goes through
\* the operations in program order and, for each operand of an operation,
\* links its node after the wire's current tail and advances the tail.
\* the tail is never advanced: every node is linked after the wire's input
AdvanceNever(tail, n, qargs) == tail
Advance(tail, n, qargs) == [w \in DOMAIN tail |-> IF w \in Range(qargs) THEN n ELSE tail[w]]
LinkAfterTail(tail, n, qargs) == {<<w, tail[w], n>> : w \in Range(qargs)}
RECURSIVE LinkFrom(_, _, _, _)
LinkFrom(ops, n, tail, links) ==
    IF n > Len(ops) THEN links
    ELSE LinkFrom(ops, n + 1, Advance(tail, n, ops[n].qargs),
                  links \cup LinkAfterTail(tail, n, ops[n].qargs))
Links(dag) == LinkFrom(dag.ops, 1, [w \in 0..(dag.nq - 1) |-> 0], {})

\* DAGCircuit.fromQuantumCircuit: one node per operation in program order
fromQuantumCircuit(nq, data) ==
    IF \E i \in DOMAIN data : \E q \in Range(data[i].qargs) : q \notin 0..(nq - 1)
    THEN [error |-> Error("MalformedCircuitError", "", "", ""), nq |-> nq, ops |-> <<>>]
    ELSE [error |-> NoError, nq |-> nq, ops |-> data]

\* the gates of ops that neither are in the basis nor are opaque
NonBasis(ops, basis) ==
    {i \in DOMAIN ops : IsGate(ops[i]) /\ ops[i].name \notin basis
                        /\ ops[i].name \notin OpaqueGates}

\* One node, expanded down to the basis: the operations that replace it,
\* or failed when a gate outside the basis has no rule or the recursion
\* bound is exhausted.
RECURSIVE UnrollOp(_, _, _)
RECURSIVE UnrollSeq(_, _, _)
UnrollOp(op, basis, depth) ==
    IF ~IsGate(op) \/ op.name \in basis \/ op.name \in OpaqueGates
    THEN [failed |-> FALSE, ops |-> <<op>>]
    ELSE IF ~HasDefinition(op.name) \/ depth = 0
    THEN [failed |-> TRUE, ops |-> <<>>]
    ELSE UnrollSeq(Definition(op), basis, depth - 1)
UnrollSeq(ops, basis, depth) ==
    IF ops = <<>> THEN [failed |-> FALSE, ops |-> <<>>]
    ELSE LET head == UnrollOp(Head(ops), basis, depth)
             rest == UnrollSeq(Tail(ops), basis, depth)
         IN [failed |-> head.failed \/ rest.failed, ops |-> head.ops \o rest.ops]

\* DagUnroller(dag, DAGBackend(basis)).expand_gates()
Unrolled(dag, res) ==
    IF res.failed
    THEN [error |-> Error("UnsupportedGateError", "", "",
                          dag.ops[Lowest({i \in DOMAIN dag.ops :
                                            UnrollOp(dag.ops[i], res.basis, MaxDepth).failed})].name),
          nq |-> dag.nq, ops |-> dag.ops]
    ELSE [error |-> NoError, nq |-> dag.nq, ops |-> res.ops]
expand_gates(dag, basis) ==
    Unrolled(dag, [basis |-> basis] @@ UnrollSeq(dag.ops, basis, MaxDepth))

(* ------------------------------------------------------------------ *)
(* The mapper: coupling graph, router, direction corrector, peephole   *)
(* ------------------------------------------------------------------ *)
\* mapper.Coupling(mapper.coupling_list2dict(coupling_map)): the directed
\* edges (control, target) of the list and the physical qubits on them
\* The legacy form, a mapping from a control to the list of its targets,
\* is accepted and normalized: its edges in the order of the mapping.
RECURSIVE EdgeList(_)
EdgesFrom(control, targets) == [i \in DOMAIN targets |-> <<control, targets[i]>>]
EdgeList(items) ==
    IF items = <<>> THEN <<>>
    ELSE EdgesFrom(Head(items)[1], Head(items)[2]) \o EdgeList(Tail(items))
Edges(coupling_map) ==
    IF coupling_map.tag = "dict" THEN EdgeList(coupling_map.val) ELSE coupling_map.val
Coupling(coupling_map) ==
    LET edges == Range(Edges(coupling_map))
    IN [edges |-> edges, qubits |-> {e[1] : e \in edges} \cup {e[2] : e \in edges}]

Adjacent(C, a, b) == <<a, b>> \in C.edges \/ <<b, a>> \in C.edges

\* breadth-first search: the physical qubits one hop around a set
Around(C, near) == near \cup {n \in C.qubits : \E m \in near : Adjacent(C, m, n)}
\* the number of hops from the set near (k hops from the start) to b; more
\* than there are qubits when b cannot be reached
RECURSIVE Hops(_, _, _, _)
Hops(C, near, b, k) ==
    IF b \in near \/ k > Cardinality(C.qubits) THEN k ELSE Hops(C, Around(C, near), b, k + 1)
Distance(C, a, b) == Hops(C, {a}, b, 0)
Connected(C, a, b) == Distance(C, a, b) <= Cardinality(C.qubits)

\* a shortest path from a to b, the lowest-numbered neighbour first
Closer(C, a, b) ==
    {n \in C.qubits : Adjacent(C, a, n) /\ Distance(C, n, b) < Distance(C, a, b)}
RECURSIVE ShortestPath(_, _, _)
ShortestPath(C, a, b) ==
    IF a = b THEN <<a>> ELSE <<a>> \o ShortestPath(C, Lowest(Closer(C, a, b)), b)

\* the SWAPs that walk the qubit at path[1] to the neighbour of the path's end
SwapChain(path) == [i \in 1..(Len(path) - 2) |-> Gate2("swap", path[i], path[i + 1])]

\* a layout (virtual -> physical) after swapping physical qubits a and b
SwapLayout(layout, a, b) ==
    [v \in DOMAIN layout |-> IF layout[v] = a THEN b
                             ELSE IF layout[v] = b THEN a ELSE layout[v]]
RECURSIVE ApplySwaps(_, _)
ApplySwaps(layout, swaps) ==
    IF swaps = <<>> THEN layout
    ELSE ApplySwaps(SwapLayout(layout, Head(swaps).qargs[1], Head(swaps).qargs[2]),
                    Tail(swaps))

\* an operation with its virtual operands replaced by their physical qubits
MapOp(op, layout) == [op EXCEPT !.qargs = [i \in DOMAIN op.qargs |-> layout[op.qargs[i]]]]

IsTwoQubitGate(op) == IsGate(op) /\ Len(op.qargs) = 2

\* the front layer of ops: the nodes none of whose wires is touched by an
\* earlier node
FrontLayer(ops) ==
    {i \in DOMAIN ops : \A j \in 1..(i - 1) : Range(ops[j].qargs) \cap Range(ops[i].qargs) = {}}
Pick(ops, idx) == SelectSeq([i \in DOMAIN ops |-> [i |-> i, op |-> ops[i]]],
                            LAMBDA r : r.i \in idx)
Ops(rs) == [i \in DOMAIN rs |-> rs[i].op]
RECURSIVE Layers(_)
Behind(ops, front) == Ops(Pick(ops, DOMAIN ops \ front))
LayersFrom(ops, front) == <<Ops(Pick(ops, front))>> \o Layers(Behind(ops, front))
Layers(ops) == IF ops = <<>> THEN <<>> ELSE LayersFrom(ops, FrontLayer(ops))

\* the SWAPs put before one layer: for each two-qubit node of the layer whose
\* physical operands are not adjacent, the chain along a shortest path
RECURSIVE RouteLayer(_, _, _)
RouteFailed(layout) == [failed |-> TRUE, swaps |-> <<>>, layout |-> layout]
ChainThen(chain, rest) ==
    [failed |-> rest.failed, swaps |-> chain \o rest.swaps, layout |-> rest.layout]
RouteChain(C, layer, layout, chain) ==
    ChainThen(chain, RouteLayer(C, Tail(layer), ApplySwaps(layout, chain)))
RouteNode(C, layer, layout, a, b) ==
    IF Adjacent(C, a, b) THEN RouteLayer(C, Tail(layer), layout)
    ELSE IF ~Connected(C, a, b) THEN RouteFailed(layout)
    ELSE RouteChain(C, layer, layout, SwapChain(ShortestPath(C, a, b)))
RouteLayer(C, layer, layout) ==
    IF layer = <<>> THEN [failed |-> FALSE, swaps |-> <<>>, layout |-> layout]
    ELSE IF ~IsTwoQubitGate(Head(layer)) THEN RouteLayer(C, Tail(layer), layout)
    ELSE RouteNode(C, layer, layout, layout[Head(layer).qargs[1]], layout[Head(layer).qargs[2]])

\* one routing trial from its own copy of the layout: the routed operations
\* (on physical qubits), the final layout and the number of SWAPs inserted
RECURSIVE RouteLayers(_, _, _)
MapLayer(layer, layout) == [i \in DOMAIN layer |-> MapOp(layer[i], layout)]
LayerThen(layer, here, rest) ==
    [failed |-> rest.failed,
     ops |-> here.swaps \o MapLayer(layer, here.layout) \o rest.ops,
     layout |-> rest.layout,
     swaps |-> Len(here.swaps) + rest.swaps]
RoutedLayer(C, layers, layout, here) ==
    IF here.failed THEN [failed |-> TRUE, ops |-> <<>>, layout |-> layout, swaps |-> 0]
    ELSE LayerThen(Head(layers), here, RouteLayers(C, Tail(layers), here.layout))
RouteLayers(C, layers, layout) ==
    IF layers = <<>> THEN [failed |-> FALSE, ops |-> <<>>, layout |-> layout, swaps |-> 0]
    ELSE RoutedLayer(C, layers, layout, RouteLayer(C, Head(layers), layout))
Trial(C, ops, layout) == RouteLayers(C, Layers(ops), layout)

\* The layout a trial starts from: the initial layout when one is given,
\* else the identity on the first trial and, on a later trial, the layout
\* the trial's generator draws (rng is the draw of the second trial; the
\* draws of the later ones follow from it and the trial index).
TrialLayout(initial_layout, rng, t, nq, n) ==
    IF ~IsNone(initial_layout) THEN initial_layout.val
    ELSE IF t = 1 THEN [v \in 0..(nq - 1) |-> v]
    ELSE [v \in 0..(nq - 1) |-> (rng[v + 1] + (t - 2)) % n]

\* the trial to keep among results[1..t]: fewest SWAPs, and of those the
\* earliest (0: every trial failed)
RECURSIVE BestTrial(_, _)
Better(results, t, best) ==
    IF results[t].failed THEN best
    ELSE IF best = 0 THEN t
    ELSE IF results[t].swaps < results[best].swaps THEN t
    ELSE best
BestTrial(results, t) ==
    IF t = 0 THEN 0 ELSE Better(results, t, BestTrial(results, t - 1))

\* the results of trials 1..t, each from its own starting layout
RECURSIVE TrialResults(_, _, _, _, _)
TrialResults(dag, C, initial_layout, t, rng) ==
    IF t = 0 THEN <<>>
    ELSE Append(TrialResults(dag, C, initial_layout, t - 1, rng),
                Trial(C, dag.ops,
                      TrialLayout(initial_layout, rng, t, dag.nq, Cardinality(C.qubits))))

Unroutable(dag) ==
    [error |-> Error("UnsatisfiableTopologyError", "", "", ""),
     nq |-> dag.nq, ops |-> dag.ops, layout |-> None, swaps |-> 0]
Selected(dag, n, results, best) ==
    IF best = 0 THEN Unroutable(dag)
    ELSE [error |-> NoError, nq |-> n, ops |-> results[best].ops,
          layout |-> Some(results[best].layout), swaps |-> results[best].swaps]
SelectBest(dag, n, results, trials) == Selected(dag, n, results, BestTrial(results, trials))
\* mapper.swap_mapper(dag, coupling, initial_layout, trials, seed)
swap_mapper(dag, C, initial_layout, trials, rng) ==
    IF dag.nq > Cardinality(C.qubits) \/ C.qubits # 0..(Cardinality(C.qubits) - 1)
    THEN Unroutable(dag)
    ELSE SelectBest(dag, Cardinality(C.qubits),
                    TrialResults(dag, C, initial_layout, trials, rng), trials)

\* the basis change that turns a two-qubit node around
Flipped(op) ==
    LET c == op.qargs[1]
        t == op.qargs[2]
        hh(q) == Op("u2", <<q>>, <<"0", "pi">>)
    IN <<hh(c), hh(t), [op EXCEPT !.qargs = <<t, c>>], hh(c), hh(t)>>

\* mapper.direction_mapper(dag, coupling)
RECURSIVE DirectOps(_, _)
DirectOps(ops, C) ==
    IF ops = <<>> THEN <<>>
    ELSE LET op == Head(ops)
         IN (IF IsTwoQubitGate(op) /\ <<op.qargs[1], op.qargs[2]>> \notin C.edges
                                 /\ <<op.qargs[2], op.qargs[1]>> \in C.edges
             THEN Flipped(op) ELSE <<op>>) \o DirectOps(Tail(ops), C)
direction_mapper(dag, C) == [dag EXCEPT !.ops = DirectOps(dag.ops, C)]

\* the two-qubit gates whose inverse() is the same gate
SelfInverse == {"cx", "cz", "cy", "ch", "swap"}
\* nodes i < j that cancel: the same self-inverse two-qubit gate on the same
\* operands, with no node between them on either of the two qubits
Cancels(ops, i, j) ==
    /\ i < j
    /\ IsTwoQubitGate(ops[i]) /\ ops[i].name \in SelfInverse
    /\ ops[j].name = ops[i].name /\ ops[j].qargs = ops[i].qargs
    /\ \A k \in (i + 1)..(j - 1) : Range(ops[k].qargs) \cap Range(ops[i].qargs) = {}
Without(ops, idx) == Ops(Pick(ops, DOMAIN ops \ idx))
\* mapper.cx_cancellation(dag): to a fixed point
RECURSIVE CancelOps(_)
CancelPairs(ops) == {p \in (DOMAIN ops) \X (DOMAIN ops) : Cancels(ops, p[1], p[2])}
FirstPair(pairs) == CHOOSE p \in pairs : \A r \in pairs : p[1] <= r[1]
CancelPair(ops, p) == CancelOps(Without(ops, {p[1], p[2]}))
CancelFrom(ops, pairs) == IF pairs = {} THEN ops ELSE CancelPair(ops, FirstPair(pairs))
CancelOps(ops) == CancelFrom(ops, CancelPairs(ops))
cx_cancellation(dag) == [dag EXCEPT !.ops = CancelOps(dag.ops)]

\* a single-qubit gate the fusion pass may merge (id is opaque and is kept)
IsFusable(op) == IsGate(op) /\ Len(op.qargs) = 1 /\ op.name \notin OpaqueGates
\* node j is the next node after i on the wire of the single-qubit node i
NextOnWire(ops, i, j) ==
    /\ i < j /\ ops[i].qargs[1] \in Range(ops[j].qargs)
    /\ \A k \in (i + 1)..(j - 1) : ops[i].qargs[1] \notin Range(ops[k].qargs)
\* mapper.optimize_1q_gates(dag): each run of consecutive single-qubit gates
\* on a wire becomes one u3 that composes them
RECURSIVE FuseOps(_)
Runs(ops) ==
    {p \in (DOMAIN ops) \X (DOMAIN ops) :
        /\ IsFusable(ops[p[1]]) /\ IsFusable(ops[p[2]])
        /\ NextOnWire(ops, p[1], p[2])}
Composed(op) == Op("u3", op.qargs, <<"composed">>)
FusePair(ops, p) == FuseOps(Without([ops EXCEPT ![p[1]] = Composed(ops[p[1]])], {p[2]}))
FuseFrom(ops, runs) == IF runs = {} THEN ops ELSE FusePair(ops, FirstPair(runs))
FuseOps(ops) == FuseFrom(ops, Runs(ops))
optimize_1q_gates(dag) == [dag EXCEPT !.ops = FuseOps(dag.ops)]

(* ------------------------------------------------------------------ *)
(* compile(): its helpers                                              *)
(* ------------------------------------------------------------------ *)
\* A basis specification is a string; it is kept as its tokens, a "," being
\* a token of its own.  str.split(','): the fields between the commas.
RECURSIVE Split(_)
Split(tokens) ==
    IF \A i \in DOMAIN tokens : tokens[i] # "," THEN <<tokens>>
    ELSE LET c == CHOOSE i \in DOMAIN tokens :
                     tokens[i] = "," /\ \A j \in 1..(i - 1) : tokens[j] # ","
         IN <<SubSeq(tokens, 1, c - 1)>> \o Split(SubSeq(tokens, c + 1, Len(tokens)))
\* the gate names a list of fields holds
Names(fields) == {fields[i][1] : i \in {j \in DOMAIN fields : Len(fields[j]) = 1}}

DefaultBasisGates == <<"u1", ",", "u2", ",", "u3", ",", "cx", ",", "id">>
HpcBackend == "ibmqx_hpc_qasm_simulator"
HpcDefault == [multi_shot_optimization |-> TRUE, omp_num_threads |-> 16]

\* lines 168-185: the hpc block in effect, None when it is dropped
ResolveHpc(backend, hpc) ==
    IF backend = HpcBackend THEN (IF IsNone(hpc) THEN Some(HpcDefault) ELSE hpc)
    ELSE None
\* the test raises only when both keys are missing
HpcMalformedBoth(backend, hpc) ==
    /\ backend = HpcBackend
    /\ {"multi_shot_optimization", "omp_num_threads"} \cap DOMAIN ResolveHpc(backend, hpc).val = {}
\* lines 175-177: a key of the block is missing
HpcMalformed(backend, hpc) ==
    /\ backend = HpcBackend
    /\ ~({"multi_shot_optimization", "omp_num_threads"} \subseteq DOMAIN ResolveHpc(backend, hpc).val)

\* the hpc block is put in the header whatever the backend
QobjConfigHpcAlways(config, hpc) ==
    [max_credits |-> config.max_credits, backend |-> config.backend,
     shots |-> config.shots, hpc |-> hpc]
\* lines 164-185: the header of the job description; it has the key hpc
\* only in the branch of the hpc backend (line 179)
QobjConfig(config, hpc) ==
    IF config.backend = HpcBackend
    THEN [max_credits |-> config.max_credits, backend |-> config.backend,
          shots |-> config.shots, hpc |-> hpc]
    ELSE [max_credits |-> config.max_credits, backend |-> config.backend,
          shots |-> config.shots]

\* the descriptor's coupling map is taken whatever the configuration gives
ResolveCouplingMapBackend(given, conf) == conf.coupling_map
\* a basis override of a single field is kept as it is given
ResolveBasisGatesAsGiven(given, conf) ==
    IF ~Truthy(given) THEN (IF ~IsNone(conf.basis_gates) THEN conf.basis_gates ELSE given)
    ELSE given

\* lines 190-197
ResolveBasisGates(given, conf) ==
    IF ~Truthy(given) THEN (IF ~IsNone(conf.basis_gates) THEN conf.basis_gates ELSE given)
    ELSE IF Len(Split(given.val)) < 2 THEN Some(DefaultBasisGates)
    ELSE given
\* lines 198-199
ResolveCouplingMap(given, conf) ==
    IF ~Truthy(given) THEN conf.coupling_map ELSE given

\* only the sentinel test, without the test for a single qubit
NoRoutingSentinelOnly(cm, num_qubits) == IF cm = AllToAll THEN None ELSE cm
\* lines 203-206: the coupling map after the two "no routing" tests
NoRouting(cm, num_qubits) ==
    LET one == IF num_qubits = 1 THEN None ELSE cm
    IN IF one = AllToAll THEN None ELSE one

\* a scan that looks only at the first operand of a gate
RECURSIVE ScanFirstOperand(_, _, _, _)
ScanFirstOperand(data, i, measured_qubits, qasm_idx) ==
    IF i > Len(data)
    THEN [raised |-> FALSE, measured_qubits |-> measured_qubits, qasm_idx |-> qasm_idx]
    ELSE IF IsMeasure(data[i])
    THEN ScanFirstOperand(data, i + 1, Append(measured_qubits, data[i].qargs[1]),
                          Append(qasm_idx, i - 1))
    ELSE IF IsGate(data[i]) /\ data[i].qargs[1] \in Range(measured_qubits)
    THEN [raised |-> TRUE, measured_qubits |-> measured_qubits, qasm_idx |-> qasm_idx]
    ELSE ScanFirstOperand(data, i + 1, measured_qubits, qasm_idx)
\* lines 209-218: the scan for a gate after a measurement
RECURSIVE ScanFrom(_, _, _, _)
ScanFrom(data, i, measured_qubits, qasm_idx) ==
    IF i > Len(data)
    THEN [raised |-> FALSE, measured_qubits |-> measured_qubits, qasm_idx |-> qasm_idx]
    ELSE IF IsMeasure(data[i])
    THEN ScanFrom(data, i + 1, Append(measured_qubits, data[i].qargs[1]),
                  Append(qasm_idx, i - 1))
    ELSE IF IsGate(data[i]) /\ Range(data[i].qargs) \cap Range(measured_qubits) # {}
    THEN [raised |-> TRUE, measured_qubits |-> measured_qubits, qasm_idx |-> qasm_idx]
    ELSE ScanFrom(data, i + 1, measured_qubits, qasm_idx)
ScanMeasurements(data) == ScanFrom(data, 1, <<>>, <<>>)

\* lines 219-220: for i, qubit in zip(qasm_idx, measured_qubits):
\*                    circuit.data.insert(i, Barrier([qubit], circuit))
RECURSIVE InsertBarriers(_, _, _)
InsertBarriers(data, qasm_idx, measured_qubits) ==
    IF qasm_idx = <<>> THEN data
    ELSE InsertBarriers(ListInsert(data, Head(qasm_idx), Barrier(Head(measured_qubits))),
                        Tail(qasm_idx), Tail(measured_qubits))

\* lines 237-239: the layout as a list of [virtual, physical] pairs
ListLayout(final_layout) ==
    IF ~(final_layout.tag = "Some" /\ DOMAIN final_layout.val # {}) THEN None
    ELSE LET l == final_layout.val
         IN Some([i \in 1..Cardinality(DOMAIN l) |-> <<i - 1, l[i - 1]>>])

(* ------------------------------------------------------------------ *)
(* State                                                               *)
(* ------------------------------------------------------------------ *)
VARIABLES
    pc,                \* where the program is
    caller,            \* who called compile_circuit: "compile" or "direct"
    compile_config,    \* the configuration compile was called with
    backend_conf,      \* backends.configuration(backend)
    list_of_circuits,  \* the batch: a list of references to circuit objects
    circuits,          \* the circuit objects: name, number of qubits, data
    circuits0,         \* the circuit objects as they were at the call
    basis_gates,       \* compile's local
    coupling_map,      \* compile's local
    hpc,               \* compile's local
    idx,               \* position of the for loop in list_of_circuits
    qobj,              \* the job description under construction
    result,            \* what compile returned (None before it returns)
    error,             \* the exception that was raised
    cc,                \* the frame of compile_circuit
    rng,               \* what the seeded generator of the router draws
    heap               \* the gate and expression objects a caller holds

vars == <<pc, caller, compile_config, backend_conf, list_of_circuits, circuits, circuits0,
          basis_gates, coupling_map, hpc, idx, qobj, result, error, cc, rng, heap>>
inputs == <<caller, compile_config, backend_conf, list_of_circuits, circuits0, rng, heap>>
locals == <<basis_gates, coupling_map, hpc, idx, qobj>>

NoFrame == [quantum_circuit |-> [name |-> "", nq |-> 0, data |-> <<>>],
            basis_gates |-> None, coupling_map |-> None, initial_layout |-> None,
            basis |-> <<>>, compiled_dag_circuit |-> [nq |-> 0, ops |-> <<>>],
            final_layout |-> None, passes |-> <<>>, swaps |-> 0, trials |-> <<>>]
\* the frame of a call compile_circuit(quantum_circuit, basis_gates, coupling_map,
\* initial_layout)
Frame(quantum_circuit, bg, cm, il) ==
    [NoFrame EXCEPT !.quantum_circuit = quantum_circuit, !.basis_gates = bg,
                    !.coupling_map = cm, !.initial_layout = il]

\* the exception is caught, and the loop goes on to the job entry
CatchAndGoOn(e) == pc' = "job" /\ error' = e
Raise(e) == pc' = "raised" /\ error' = e

(* ------------------------------------------------------------------ *)
(* compile(list_of_circuits, compile_config)                           *)
(* ------------------------------------------------------------------ *)
\* lines 147-199: the job header, the hpc block, the basis and the coupling map
compile_begin ==
    /\ pc = "compile"
    /\ LET backend == compile_config.backend
       IN IF HpcMalformed(backend, compile_config.hpc)
          THEN /\ Raise(Error("QISKitError", backend, "", ""))
               /\ UNCHANGED <<locals, result>>
          ELSE /\ hpc' = ResolveHpc(backend, compile_config.hpc)
               /\ qobj' = [id |-> compile_config.qobj_id,
                           config |-> QobjConfig(compile_config, hpc'),
                           circuits |-> <<>>]
               /\ basis_gates' = ResolveBasisGates(compile_config.basis_gates, backend_conf)
               /\ coupling_map' = ResolveCouplingMap(compile_config.coupling_map, backend_conf)
               /\ idx' = 1
               /\ pc' = "loop"
               /\ UNCHANGED <<result, error>>
    /\ UNCHANGED <<inputs, circuits, cc>>

\* each barrier is inserted as soon as its measurement is found, so a circuit
\* that raises has the barriers of the measurements before the gate
compile_loop_insert_as_found ==
    /\ pc = "loop" /\ idx <= Len(list_of_circuits)
    /\ LET ref == list_of_circuits[idx]
           circuit == circuits[ref]
           scan == ScanMeasurements(circuit.data)
           marked == [circuits EXCEPT ![ref].data =
                        InsertBarriers(circuit.data, scan.qasm_idx, scan.measured_qubits)]
       IN /\ coupling_map' = NoRouting(coupling_map, circuit.nq)
          /\ IF ~backend_conf.simulator /\ scan.raised
             THEN /\ Raise(Error("QISKitError", compile_config.backend, circuit.name, ""))
                  /\ circuits' = marked
                  /\ UNCHANGED cc
             ELSE /\ circuits' = IF backend_conf.simulator THEN circuits ELSE marked
                  /\ cc' = Frame(circuits'[ref], basis_gates, coupling_map',
                                 compile_config.initial_layout)
                  /\ pc' = "cc_build"
                  /\ UNCHANGED error
    /\ UNCHANGED <<inputs, basis_gates, hpc, idx, qobj, result>>

\* lines 200-226: one circuit of the batch, up to the call of compile_circuit
compile_loop ==
    /\ pc = "loop" /\ idx <= Len(list_of_circuits)
    /\ LET ref == list_of_circuits[idx]
           circuit == circuits[ref]
           scan == ScanMeasurements(circuit.data)
       IN /\ coupling_map' = NoRouting(coupling_map, circuit.nq)
          /\ IF ~backend_conf.simulator /\ scan.raised
             THEN /\ Raise(Error("QISKitError", compile_config.backend, circuit.name, ""))
                  /\ UNCHANGED <<circuits, cc>>
             ELSE /\ circuits' =
                        IF backend_conf.simulator THEN circuits
                        ELSE [circuits EXCEPT ![ref].data =
                                InsertBarriers(circuit.data, scan.qasm_idx, scan.measured_qubits)]
                  /\ cc' = Frame(circuits'[ref], basis_gates, coupling_map',
                                 compile_config.initial_layout)
                  /\ pc' = "cc_build"
                  /\ UNCHANGED error
    /\ UNCHANGED <<inputs, basis_gates, hpc, idx, qobj, result>>

\* the job entry records the coupling map of the configuration
compile_job_configured ==
    /\ pc = "job"
    /\ LET job == [name |-> cc.quantum_circuit.name,
                   config |-> [coupling_map |-> compile_config.coupling_map,
                               layout |-> ListLayout(cc.final_layout),
                               basis_gates |-> basis_gates,
                               seed |-> compile_config.seed],
                   compiled_circuit |-> cc.compiled_dag_circuit]
       IN qobj' = [qobj EXCEPT !.circuits = Append(@, job)]
    /\ idx' = idx + 1
    /\ pc' = "loop"
    /\ UNCHANGED <<inputs, circuits, basis_gates, coupling_map, hpc, result, error, cc>>

\* the job entry is put in front of the list
compile_job_prepend ==
    /\ pc = "job"
    /\ LET job == [name |-> cc.quantum_circuit.name,
                   config |-> [coupling_map |-> coupling_map,
                               layout |-> ListLayout(cc.final_layout),
                               basis_gates |-> basis_gates,
                               seed |-> compile_config.seed],
                   compiled_circuit |-> cc.compiled_dag_circuit]
       IN qobj' = [qobj EXCEPT !.circuits = <<job>> \o @]
    /\ idx' = idx + 1
    /\ pc' = "loop"
    /\ UNCHANGED <<inputs, circuits, basis_gates, coupling_map, hpc, result, error, cc>>

\* lines 227-257: the job entry of the circuit
compile_job ==
    /\ pc = "job"
    /\ LET job == [name |-> cc.quantum_circuit.name,
                   config |-> [coupling_map |-> coupling_map,
                               layout |-> ListLayout(cc.final_layout),
                               basis_gates |-> basis_gates,
                               seed |-> compile_config.seed],
                   compiled_circuit |-> cc.compiled_dag_circuit]
       IN qobj' = [qobj EXCEPT !.circuits = Append(@, job)]
    /\ idx' = idx + 1
    /\ pc' = "loop"
    /\ UNCHANGED <<inputs, circuits, basis_gates, coupling_map, hpc, result, error, cc>>

\* line 258
compile_return ==
    /\ pc = "loop" /\ idx > Len(list_of_circuits)
    /\ result' = Some(qobj)
    /\ pc' = "done"
    /\ UNCHANGED <<inputs, circuits, locals, error, cc>>

(* ------------------------------------------------------------------ *)
(* compile_circuit(quantum_circuit, basis_gates, coupling_map,         *)
(*                 initial_layout, get_layout=True)                    *)
(* ------------------------------------------------------------------ *)
Ran(pass) == [cc EXCEPT !.passes = Append(@, pass)]
driver == <<circuits, locals, result>>

\* the router is called on the DAG as it was built, without the unroll pass
cc_build_then_route ==
    /\ pc = "cc_build"
    /\ LET dag == fromQuantumCircuit(cc.quantum_circuit.nq, cc.quantum_circuit.data)
       IN IF dag.error # NoError
          THEN Raise(dag.error) /\ UNCHANGED cc
          ELSE /\ cc' = [cc EXCEPT !.compiled_dag_circuit = [nq |-> dag.nq, ops |-> dag.ops],
                                   !.basis = IF Truthy(cc.basis_gates)
                                             THEN Split(cc.basis_gates.val) ELSE <<>>]
               /\ pc' = IF Truthy(cc.coupling_map) THEN "cc_swap_mapper" ELSE "cc_unroll"
               /\ UNCHANGED error
    /\ UNCHANGED <<inputs, driver>>

\* the basis string is not split: the basis is the list of the one string
cc_build_unsplit ==
    /\ pc = "cc_build"
    /\ LET dag == fromQuantumCircuit(cc.quantum_circuit.nq, cc.quantum_circuit.data)
       IN IF dag.error # NoError
          THEN Raise(dag.error) /\ UNCHANGED cc
          ELSE /\ cc' = [cc EXCEPT !.compiled_dag_circuit = [nq |-> dag.nq, ops |-> dag.ops],
                                   !.basis = IF Truthy(cc.basis_gates)
                                             THEN <<cc.basis_gates.val>> ELSE <<>>]
               /\ pc' = "cc_unroll"
               /\ UNCHANGED error
    /\ UNCHANGED <<inputs, driver>>

\* lines 306-307: the DAG of the circuit, and the basis as a list
cc_build ==
    /\ pc = "cc_build"
    /\ LET dag == fromQuantumCircuit(cc.quantum_circuit.nq, cc.quantum_circuit.data)
       IN IF dag.error # NoError
          THEN Raise(dag.error) /\ UNCHANGED cc
          ELSE /\ cc' = [cc EXCEPT !.compiled_dag_circuit = [nq |-> dag.nq, ops |-> dag.ops],
                                   !.basis = IF Truthy(cc.basis_gates)
                                             THEN Split(cc.basis_gates.val) ELSE <<>>]
               /\ pc' = "cc_unroll"
               /\ UNCHANGED error
    /\ UNCHANGED <<inputs, driver>>

\* expand_gates() is called and its result is not assigned
cc_unroll_dropped ==
    /\ pc = "cc_unroll"
    /\ LET dag == expand_gates(cc.compiled_dag_circuit, Names(cc.basis))
       IN IF dag.error # NoError
          THEN Raise(dag.error) /\ UNCHANGED cc
          ELSE /\ cc' = [Ran("unroll") EXCEPT !.final_layout = None]
               /\ pc' = IF Truthy(cc.coupling_map) THEN "cc_swap_mapper" ELSE "cc_return"
               /\ UNCHANGED error
    /\ UNCHANGED <<inputs, driver>>

\* after the first unroll pass the cancellation and the fusion run even when
\* no coupling map is given
cc_unroll_then_simplify ==
    /\ pc = "cc_unroll"
    /\ LET dag == expand_gates(cc.compiled_dag_circuit, Names(cc.basis))
       IN IF dag.error # NoError
          THEN Raise(dag.error) /\ UNCHANGED cc
          ELSE /\ cc' = [Ran("unroll") EXCEPT
                            !.compiled_dag_circuit = [nq |-> dag.nq, ops |-> dag.ops],
                            !.final_layout = None]
               /\ pc' = IF Truthy(cc.coupling_map) THEN "cc_swap_mapper"
                        ELSE "cc_cx_cancellation"
               /\ UNCHANGED error
    /\ UNCHANGED <<inputs, driver>>

\* lines 309-313: the first unroll pass, and the test for a coupling map
cc_unroll ==
    /\ pc = "cc_unroll"
    /\ LET dag == expand_gates(cc.compiled_dag_circuit, Names(cc.basis))
       IN IF dag.error # NoError
          THEN Raise(dag.error) /\ UNCHANGED cc
          ELSE /\ cc' = [Ran("unroll") EXCEPT
                            !.compiled_dag_circuit = [nq |-> dag.nq, ops |-> dag.ops],
                            !.final_layout = None]
               /\ pc' = IF Truthy(cc.coupling_map) THEN "cc_swap_mapper" ELSE "cc_return"
               /\ UNCHANGED error
    /\ UNCHANGED <<inputs, driver>>

\* the router is called for a single trial
cc_swap_mapper_one_trial ==
    /\ pc = "cc_swap_mapper"
    /\ LET routed == swap_mapper(cc.compiled_dag_circuit, Coupling(cc.coupling_map),
                                 cc.initial_layout, 1, rng)
       IN IF routed.error # NoError
          THEN Raise(routed.error) /\ UNCHANGED cc
          ELSE /\ cc' = [Ran("swap_mapper") EXCEPT
                            !.compiled_dag_circuit = [nq |-> routed.nq, ops |-> routed.ops],
                            !.final_layout = routed.layout,
                            !.swaps = routed.swaps]
               /\ pc' = "cc_expand_swaps"
               /\ UNCHANGED error
    /\ UNCHANGED <<inputs, driver>>

\* lines 317-321: insert swap gates
cc_swap_mapper ==
    /\ pc = "cc_swap_mapper"
    /\ LET routed == swap_mapper(cc.compiled_dag_circuit, Coupling(cc.coupling_map),
                                 cc.initial_layout, NumTrials, rng)
       IN IF routed.error # NoError
          THEN Raise(routed.error) /\ UNCHANGED cc
          ELSE /\ cc' = [Ran("swap_mapper") EXCEPT
                            !.compiled_dag_circuit = [nq |-> routed.nq, ops |-> routed.ops],
                            !.final_layout = routed.layout,
                            !.swaps = routed.swaps]
               /\ pc' = "cc_expand_swaps"
               /\ UNCHANGED error
    /\ UNCHANGED <<inputs, driver>>

\* lines 322-324: expand swaps
cc_expand_swaps ==
    /\ pc = "cc_expand_swaps"
    /\ LET dag == expand_gates(cc.compiled_dag_circuit, Names(cc.basis))
       IN IF dag.error # NoError
          THEN Raise(dag.error) /\ UNCHANGED cc
          ELSE /\ cc' = [Ran("unroll") EXCEPT
                            !.compiled_dag_circuit = [nq |-> dag.nq, ops |-> dag.ops]]
               /\ pc' = "cc_direction_mapper"
               /\ UNCHANGED error
    /\ UNCHANGED <<inputs, driver>>

\* lines 325-326: change cx directions
cc_direction_mapper ==
    /\ pc = "cc_direction_mapper"
    /\ cc' = [Ran("direction_mapper") EXCEPT
                !.compiled_dag_circuit =
                    direction_mapper(cc.compiled_dag_circuit, Coupling(cc.coupling_map))]
    /\ pc' = "cc_cx_cancellation"
    /\ UNCHANGED <<inputs, driver, error>>

\* the pass takes out the first cancelling pair and stops
cc_cx_cancellation_one_pair ==
    /\ pc = "cc_cx_cancellation"
    /\ LET ops == cc.compiled_dag_circuit.ops
           pairs == CancelPairs(ops)
       IN cc' = [Ran("cx_cancellation") EXCEPT
                    !.compiled_dag_circuit.ops =
                        IF pairs = {} THEN ops
                        ELSE Without(ops, {FirstPair(pairs)[1], FirstPair(pairs)[2]})]
    /\ pc' = "cc_optimize_1q_gates"
    /\ UNCHANGED <<inputs, driver, error>>

\* lines 327-328: simplify cx gates
cc_cx_cancellation ==
    /\ pc = "cc_cx_cancellation"
    /\ cc' = [Ran("cx_cancellation") EXCEPT
                !.compiled_dag_circuit = cx_cancellation(cc.compiled_dag_circuit)]
    /\ pc' = "cc_optimize_1q_gates"
    /\ UNCHANGED <<inputs, driver, error>>

\* lines 329-332: simplify single qubit gates
cc_optimize_1q_gates ==
    /\ pc = "cc_optimize_1q_gates"
    /\ cc' = [Ran("optimize_1q_gates") EXCEPT
                !.compiled_dag_circuit = optimize_1q_gates(cc.compiled_dag_circuit)]
    /\ pc' = "cc_return"
    /\ UNCHANGED <<inputs, driver, error>>

\* lines 333-347: back to the caller with the DAG and the layout
cc_return ==
    /\ pc = "cc_return"
    /\ pc' = IF caller = "compile" THEN "job" ELSE "cc_done"
    /\ UNCHANGED <<inputs, driver, error, cc>>

compile_circuit ==
    \/ cc_build \/ cc_unroll \/ cc_swap_mapper \/ cc_expand_swaps
    \/ cc_direction_mapper \/ cc_cx_cancellation \/ cc_optimize_1q_gates \/ cc_return

Next == compile_begin \/ compile_loop \/ compile_job \/ compile_return \/ compile_circuit

(* ------------------------------------------------------------------ *)
(* The router's trials, evaluated concurrently                         *)
(* ------------------------------------------------------------------ *)
\* the state of a trial that has not started: its own copy of the layout
NewTrial(layout) == [layer |-> 0, failed |-> FALSE, ops |-> <<>>, layout |-> layout, swaps |-> 0]
RECURSIVE NewTrials(_, _, _, _, _)
NewTrials(initial_layout, r, t, nq, n) ==
    IF t = 0 THEN <<>>
    ELSE Append(NewTrials(initial_layout, r, t - 1, nq, n),
                NewTrial(TrialLayout(initial_layout, r, t, nq, n)))
\* what swap_mapper checks before any trial
Fits(dag, C) == dag.nq <= Cardinality(C.qubits) /\ C.qubits = 0..(Cardinality(C.qubits) - 1)
TrialDone(trial, layers) == trial.failed \/ trial.layer = Len(layers)
\* a trial routes its next layer, from its own layout
TrialFailed(trial) == [trial EXCEPT !.failed = TRUE]
TrialAdvanced(trial, layer, here) ==
    [layer |-> trial.layer + 1, failed |-> FALSE,
     ops |-> trial.ops \o here.swaps \o MapLayer(layer, here.layout),
     layout |-> here.layout, swaps |-> trial.swaps + Len(here.swaps)]
TrialRouted(trial, layer, here) ==
    IF here.failed THEN TrialFailed(trial) ELSE TrialAdvanced(trial, layer, here)
\* every trial reads the layout of the first trial: no trial has a copy
TrialStepShared(trials, t, C, layers) ==
    TrialRouted(trials[t], layers[trials[t].layer + 1],
                RouteLayer(C, layers[trials[t].layer + 1], trials[1].layout))
TrialStep(trials, t, C, layers) ==
    TrialRouted(trials[t], layers[trials[t].layer + 1],
                RouteLayer(C, layers[trials[t].layer + 1], trials[t].layout))
\* the result of a finished trial
TrialResult(trial) ==
    [failed |-> trial.failed, ops |-> trial.ops, layout |-> trial.layout, swaps |-> trial.swaps]
RECURSIVE FinishedResults(_, _)
FinishedResults(trials, t) ==
    IF t = 0 THEN <<>> ELSE Append(FinishedResults(trials, t - 1), TrialResult(trials[t]))

\* swap_mapper starts its trials
trials_begin ==
    /\ pc = "cc_swap_mapper"
    /\ IF ~Fits(cc.compiled_dag_circuit, Coupling(cc.coupling_map))
       THEN Raise(Unroutable(cc.compiled_dag_circuit).error) /\ UNCHANGED cc
       ELSE /\ cc' = [cc EXCEPT !.trials =
                         NewTrials(cc.initial_layout, rng, NumTrials, cc.compiled_dag_circuit.nq,
                                   Cardinality(Coupling(cc.coupling_map).qubits))]
            /\ pc' = "trials"
            /\ UNCHANGED error
    /\ UNCHANGED <<inputs, driver>>

\* some unfinished trial takes its next step
trial_step ==
    /\ pc = "trials"
    /\ \E t \in DOMAIN cc.trials :
          /\ ~TrialDone(cc.trials[t], Layers(cc.compiled_dag_circuit.ops))
          /\ cc' = [cc EXCEPT !.trials[t] =
                       TrialStep(cc.trials, t, Coupling(cc.coupling_map),
                                 Layers(cc.compiled_dag_circuit.ops))]
    /\ UNCHANGED <<pc, error, inputs, driver>>

\* the reduction over the finished trials; only the pick is committed
trials_select ==
    /\ pc = "trials"
    /\ \A t \in DOMAIN cc.trials :
          TrialDone(cc.trials[t], Layers(cc.compiled_dag_circuit.ops))
    /\ LET routed == SelectBest(cc.compiled_dag_circuit,
                                Cardinality(Coupling(cc.coupling_map).qubits),
                                FinishedResults(cc.trials, NumTrials), NumTrials)
       IN IF routed.error # NoError
          THEN Raise(routed.error) /\ UNCHANGED cc
          ELSE /\ cc' = [Ran("swap_mapper") EXCEPT
                            !.compiled_dag_circuit = [nq |-> routed.nq, ops |-> routed.ops],
                            !.final_layout = routed.layout,
                            !.swaps = routed.swaps,
                            !.trials = <<>>]
               /\ pc' = "cc_expand_swaps"
               /\ UNCHANGED error
    /\ UNCHANGED <<inputs, driver>>

concurrent_swap_mapper == trials_begin \/ trial_step \/ trials_select

(* ------------------------------------------------------------------ *)
(* The unroll pass, one substitution at a time                         *)
(* ------------------------------------------------------------------ *)
\* a node the pass replaces: a gate outside the basis that is not opaque and
\* has a rule
Expandable(op, basis) ==
    IsGate(op) /\ op.name \notin basis /\ op.name \notin OpaqueGates /\ HasDefinition(op.name)
ExpandableNodes(ops, basis) == {i \in DOMAIN ops : Expandable(ops[i], basis)}

\* the first such node is replaced by its rule, the local frame bound to the
\* node's operands
unroll_step ==
    /\ pc = "cc_unroll"
    /\ LET ops == cc.compiled_dag_circuit.ops
           nodes == ExpandableNodes(ops, Names(cc.basis))
       IN /\ nodes # {}
          /\ cc' = [cc EXCEPT !.compiled_dag_circuit.ops =
                        SubSeq(ops, 1, Lowest(nodes) - 1) \o Definition(ops[Lowest(nodes)])
                            \o SubSeq(ops, Lowest(nodes) + 1, Len(ops))]
    /\ UNCHANGED <<pc, inputs, driver, error>>

\* no node is left to replace: the pass is over
unroll_settled ==
    /\ pc = "cc_unroll"
    /\ ExpandableNodes(cc.compiled_dag_circuit.ops, Names(cc.basis)) = {}
    /\ cc' = Ran("unroll")
    /\ pc' = "cc_done"
    /\ UNCHANGED <<inputs, driver, error>>

(* ------------------------------------------------------------------ *)
(* ParameterExpression                                                 *)
(* ------------------------------------------------------------------ *)
\* largest absolute value of a coefficient or constant of an expression
MaxCoef == 2
\* most operations applied, one after the other, to an expression
MaxDerived == 3

ParamNames == {"a", "b"}
\* a real number, and a value that is not one (isinstance(v, numbers.Real))
Number(n) == [tag |-> "num", val |-> n]
Complex == [tag |-> "complex", val |-> 0]
IsReal(v) == v.tag = "num"

\* A sympy expression, kept as sympy keeps it, simplified: a constant plus
\* a multiple of each symbol.  A symbol whose multiple is 0 has vanished.
Expr(const, coef) == [const |-> const, coef |-> coef]
Symbol(p) == Expr(0, [q \in ParamNames |-> IF q = p THEN 1 ELSE 0])
Constant(c) == Expr(c, [q \in ParamNames |-> 0])
free_symbols(e) == {p \in ParamNames : e.coef[p] # 0}
ExprAdd(x, y) == Expr(x.const + y.const, [p \in ParamNames |-> x.coef[p] + y.coef[p]])
ExprSub(x, y) == Expr(x.const - y.const, [p \in ParamNames |-> x.coef[p] - y.coef[p]])
ExprMul(x, c) == Expr(x.const * c, [p \in ParamNames |-> x.coef[p] * c])
InRange(e) ==
    /\ e.const \in -MaxCoef..MaxCoef
    /\ \A p \in ParamNames : e.coef[p] \in -MaxCoef..MaxCoef
\* expr.subs(symbol_values)
RECURSIVE SubsAll(_, _, _)
SubsOne(e, p, v) == Expr(e.const + e.coef[p] * v, [e.coef EXCEPT ![p] = 0])
SubsAll(e, values, keys) ==
    IF keys = {} THEN e
    ELSE LET p == CHOOSE q \in keys : TRUE
         IN SubsAll(SubsOne(e, p, values[p].val), values, keys \ {p})
subs(e, values) == SubsAll(e, values, DOMAIN values \cap ParamNames)

\* The expression as it was written, not simplified: what the operations
\* and binds that made an object mean.  It is history, not a field of the
\* Python object.
Leaf(p) == [k |-> "param", name |-> p, l |-> <<>>, r |-> <<>>]
Lit(c) == [k |-> "const", name |-> "", l |-> <<c>>, r |-> <<>>]
Node(op, l, r) == [k |-> op, name |-> "", l |-> <<l>>, r |-> <<r>>]
RECURSIVE Substituted(_, _)
Substituted(t, values) ==
    IF t.k = "const" THEN t
    ELSE IF t.k = "param"
    THEN (IF t.name \in DOMAIN values THEN Lit(values[t.name].val) ELSE t)
    ELSE Node(t.k, Substituted(t.l[1], values), Substituted(t.r[1], values))

\* ParameterExpression(symbol_map, expr), lines 33-47
ParameterExpression(symbol_map, expr, written) ==
    [tag |-> "ParameterExpression", parameter_symbols |-> symbol_map,
     parameters |-> symbol_map, symbol_expr |-> expr, written |-> written]
\* Parameter(name): an expression that is its own single symbol
Parameter(name) == ParameterExpression({name}, Symbol(name), Leaf(name))

Returned_(value) == [raised |-> "", value |-> value]
Raised_(kind) == [raised |-> kind, value |-> None]

\* lines 193-234: self (operation) other, or other (operation) self
ApplyExpr(operation, x, y) ==
    IF operation = "add" THEN ExprAdd(x, y)
    ELSE IF operation = "sub" THEN ExprSub(x, y)
    ELSE ExprMul(x, y.const)
Operate(operation, x, y, tx, ty, reflected) ==
    IF reflected THEN [expr |-> ApplyExpr(operation, y, x), written |-> Node(operation, ty, tx)]
    ELSE [expr |-> ApplyExpr(operation, x, y), written |-> Node(operation, tx, ty)]
Applied(parameter_symbols, res) ==
    Returned_(ParameterExpression(parameter_symbols, res.expr, res.written))
apply_operation(self, operation, other, reflected) ==
    IF other.tag = "ParameterExpression"
    THEN Applied(self.parameter_symbols \cup other.parameter_symbols,
                 Operate(operation, self.symbol_expr, other.symbol_expr,
                         self.written, other.written, reflected))
    ELSE IF IsReal(other)
    THEN Applied(self.parameter_symbols,
                 Operate(operation, self.symbol_expr, Constant(other.val),
                         self.written, Lit(other.val), reflected))
    ELSE Returned_([tag |-> "NotImplemented", val |-> <<>>])

\* the parameters left are taken from the free symbols of the bound expression
bind_free_symbols(self, parameter_values) ==
    IF DOMAIN parameter_values \ self.parameters # {} THEN Raised_("CircuitError")
    ELSE IF \E p \in DOMAIN parameter_values : ~IsReal(parameter_values[p])
    THEN Raised_("CircuitError")
    ELSE Returned_(ParameterExpression(free_symbols(subs(self.symbol_expr, parameter_values)),
                                       subs(self.symbol_expr, parameter_values),
                                       Substituted(self.written, parameter_values)))
\* lines 74-115 and 163-174
bind(self, parameter_values) ==
    IF DOMAIN parameter_values \ self.parameters # {} THEN Raised_("CircuitError")
    ELSE IF \E p \in DOMAIN parameter_values : ~IsReal(parameter_values[p])
    THEN Raised_("CircuitError")
    ELSE Returned_(ParameterExpression(self.parameters \ DOMAIN parameter_values,
                                       subs(self.symbol_expr, parameter_values),
                                       Substituted(self.written, parameter_values)))

\* the test is on the free symbols of the expression
float_free_symbols(self) ==
    IF free_symbols(self.symbol_expr) # {} THEN Raised_("TypeError")
    ELSE Returned_(Number(self.symbol_expr.const))
\* lines 333-343: __float__ and __int__
float(self) ==
    IF self.parameters # {} THEN Raised_("TypeError")
    ELSE IF free_symbols(self.symbol_expr) # {} THEN Raised_("TypeError")
    ELSE Returned_(Number(self.symbol_expr.const))

\* the caller's operations on the expression it built last
Newest == heap.objs[Len(heap.objs)]
Others == {Parameter(p) : p \in ParamNames}
              \cup {Number(n) : n \in {0, 1}} \cup {Complex}
Bindings ==
    UNION {[keys -> {Number(1)}] : keys \in {{"a"}, {"b"}, {"z"}, ParamNames}}
        \cup {[p \in {"a"} |-> Complex]}
Did(op, args, out) ==
    [op |-> op, on |-> Len(heap.objs), args |-> args, raised |-> out.raised, value |-> out.value]
Kept(op, args, out) ==
    [objs |-> IF out.raised = "" /\ out.value.tag # "NotImplemented"
              THEN Append(heap.objs, out.value) ELSE heap.objs,
     last |-> Did(op, args, out)]
quiet == <<pc, caller, compile_config, backend_conf, list_of_circuits, circuits, circuits0,
           basis_gates, coupling_map, hpc, idx, qobj, result, error, cc, rng>>

pe_apply_operation ==
    /\ pc = "objects" /\ Len(heap.objs) <= MaxDerived
    /\ \E operation \in {"add", "sub", "mul"}, other \in Others, reflected \in BOOLEAN :
          /\ operation = "mul" => other.tag # "ParameterExpression"
          /\ reflected => operation = "sub"
          /\ LET out == apply_operation(Newest, operation, other, reflected)
             IN /\ out.value.tag # "NotImplemented" => InRange(out.value.symbol_expr)
                /\ heap' = Kept(operation, <<other, reflected>>, out)
    /\ UNCHANGED quiet

pe_bind ==
    /\ pc = "objects" /\ Len(heap.objs) <= MaxDerived
    /\ \E parameter_values \in Bindings :
          heap' = Kept("bind", parameter_values, bind(Newest, parameter_values))
    /\ UNCHANGED quiet

pe_float ==
    /\ pc = "objects"
    /\ heap' = [heap EXCEPT !.last = Did("float", <<>>, float(Newest))]
    /\ UNCHANGED quiet

(* ------------------------------------------------------------------ *)
(* The gate classes: construction and inverse                          *)
(* ------------------------------------------------------------------ *)
\* largest absolute value of an angle of a gate
MaxAngle == 1
\* most inverses taken, one after the other, of the gates a caller holds
MaxInverses == 2

\* angles and phases are whole numbers here
Angles == (0 - MaxAngle)..MaxAngle
Phases == 0..1

\* Gate.__init__(name, num_qubits, params, phase): the base class keeps what
\* it is given
Gate(cls, name, num_qubits, params, phase) ==
    [tag |-> "Gate", cls |-> cls, name |-> name, num_qubits |-> num_qubits,
     params |-> params, phase |-> phase]

\* the __init__ of each class; the controlled gates other than cx and cz hand
\* phase=0 to the base class whatever they are given
HGate(phase_angle) == Gate("HGate", "h", 1, <<>>, phase_angle)
SGate(phase) == Gate("SGate", "s", 1, <<>>, phase)
SdgGate(phase) == Gate("SdgGate", "sdg", 1, <<>>, phase)
YGate(phase_angle) == Gate("YGate", "y", 1, <<>>, phase_angle)
ZGate(phase_angle) == Gate("ZGate", "z", 1, <<>>, phase_angle)
IGate == Gate("IGate", "id", 1, <<>>, 0)
IdGate(phase) == Gate("IdGate", "id", 1, <<>>, phase)
U1Gate(theta, phase_angle) == Gate("U1Gate", "u1", 1, <<theta>>, phase_angle)
RXGate(theta, phase) == Gate("RXGate", "rx", 1, <<theta>>, phase)
RZGate(phi, phase) == Gate("RZGate", "rz", 1, <<phi>>, phase)
RVGate(v_x, v_y, v_z) == Gate("RVGate", "rv", 1, <<v_x, v_y, v_z>>, 0)
SwapGate(phase_angle) == Gate("SwapGate", "swap", 2, <<>>, phase_angle)
CnotGate(phase) == Gate("CnotGate", "cx", 2, <<>>, phase)
CzGate(phase) == Gate("CzGate", "cz", 2, <<>>, phase)
CyGate(phase) == Gate("CyGate", "cy", 2, <<>>, 0)
CHGate(phase) == Gate("CHGate", "ch", 2, <<>>, 0)
Cu1Gate(theta, phase) == Gate("Cu1Gate", "cu1", 2, <<theta>>, 0)
CrzGate(theta, phase) == Gate("CrzGate", "crz", 2, <<theta>>, 0)
CRYGate(theta) == Gate("CRYGate", "cry", 2, <<theta>>, 0)
Cu3Gate(theta, phi, lam, phase) == Gate("Cu3Gate", "cu3", 2, <<theta, phi, lam>>, 0)
ToffoliGate(phase) == Gate("ToffoliGate", "ccx", 3, <<>>, 0)
FredkinGate(phase) == Gate("FredkinGate", "cswap", 3, <<>>, 0)

\* what a call of a method leaves: the receiver after the call, and the
\* object returned, which is a new object or the receiver itself
NewObject(self, value) == [self |-> self, value |-> value, fresh |-> TRUE]
Itself(self) == [self |-> self, value |-> self, fresh |-> FALSE]

\* the angles are negated in the receiver, which is returned
inverse_in_place(self) ==
    IF self.params = <<>> THEN NewObject(self, self)
    ELSE Itself([self EXCEPT !.params = [i \in DOMAIN self.params |-> 0 - self.params[i]]])

\* inverse() of each class
inverse(self) ==
    NewObject(self,
        CASE self.cls = "HGate" -> HGate(0 - self.phase)
          [] self.cls = "SGate" -> SdgGate(0 - self.phase)
          [] self.cls = "SdgGate" -> SGate(0 - self.phase)
          [] self.cls = "YGate" -> YGate(0 - self.phase)
          [] self.cls = "ZGate" -> ZGate(0 - self.phase)
          [] self.cls = "IGate" -> IGate
          [] self.cls = "IdGate" -> IdGate(0 - self.phase)
          [] self.cls = "U1Gate" -> U1Gate(0 - self.params[1], 0 - self.phase)
          [] self.cls = "RXGate" -> RXGate(0 - self.params[1], 0 - self.phase)
          [] self.cls = "RZGate" -> RZGate(0 - self.params[1], 0 - self.phase)
          [] self.cls = "RVGate" ->
                 RVGate(0 - self.params[1], 0 - self.params[2], 0 - self.params[3])
          [] self.cls = "SwapGate" -> SwapGate(0 - self.phase)
          [] self.cls = "CnotGate" -> CnotGate(0 - self.phase)
          [] self.cls = "CzGate" -> CzGate(0 - self.phase)
          [] self.cls = "CyGate" -> CyGate(0 - self.phase)
          [] self.cls = "CHGate" -> CHGate(0 - self.phase)
          [] self.cls = "Cu1Gate" -> Cu1Gate(0 - self.params[1], 0 - self.phase)
          [] self.cls = "CrzGate" -> CrzGate(0 - self.params[1], 0 - self.phase)
          [] self.cls = "CRYGate" -> CRYGate(0 - self.params[1])
          [] self.cls = "Cu3Gate" ->
                 Cu3Gate(0 - self.params[1], 0 - self.params[3], 0 - self.params[2],
                         0 - self.phase)
          [] self.cls = "ToffoliGate" -> ToffoliGate(0 - self.phase)
          [] self.cls = "FredkinGate" -> FredkinGate(0 - self.phase))

\* a caller holds gates: objs are the objects, given[i] is object i as it was
\* when it was made, made[i] is the object whose inverse() returned object i
\* (0 for a gate the caller constructed)
NoGates == [objs |-> <<>>, given |-> <<>>, made |-> <<>>,
            last |-> [op |-> "", on |-> 0, returned |-> 0]]
Holding(g) == [NoGates EXCEPT !.objs = <<g>>, !.given = <<g>>, !.made = <<0>>]

\* g.inverse() for a gate g the caller holds
gate_inverse ==
    /\ pc = "objects" /\ Len(heap.objs) <= MaxInverses
    /\ \E i \in DOMAIN heap.objs :
          LET out == inverse(heap.objs[i])
              kept == [heap.objs EXCEPT ![i] = out.self]
          IN heap' =
                IF out.fresh
                THEN [objs |-> Append(kept, out.value),
                      given |-> Append(heap.given, out.value),
                      made |-> Append(heap.made, i),
                      last |-> [op |-> "inverse", on |-> i, returned |-> Len(kept) + 1]]
                ELSE [heap EXCEPT !.objs = kept,
                                  !.last = [op |-> "inverse", on |-> i, returned |-> i]]
    /\ UNCHANGED quiet

(* ------------------------------------------------------------------ *)
(* compile_circuit as a function of its arguments                      *)
(* ------------------------------------------------------------------ *)
Dag(r) == [nq |-> r.nq, ops |-> r.ops]
Outcome(e, dag, layout) == [error |-> e, dag |-> dag, layout |-> layout]
Failed(r) == Outcome(r.error, Dag(r), None)
\* lines 325-332, after the swaps are expanded
Expanded(expanded, C, layout) ==
    IF expanded.error # NoError THEN Failed(expanded)
    ELSE Outcome(NoError,
                 optimize_1q_gates(cx_cancellation(direction_mapper(Dag(expanded), C))),
                 layout)
\* lines 322-324, after the router
Routed(routed, C, basis) ==
    IF routed.error # NoError THEN Failed(routed)
    ELSE Expanded(expand_gates(Dag(routed), basis), C, routed.layout)
\* lines 311-320, after the first unroll pass
FirstUnrolled(unrolled, cm, il, r, basis) ==
    IF unrolled.error # NoError THEN Failed(unrolled)
    ELSE IF ~Truthy(cm) THEN Outcome(NoError, Dag(unrolled), None)
    ELSE Routed(swap_mapper(Dag(unrolled), Coupling(cm), il, NumTrials, r),
                Coupling(cm), basis)
\* lines 307-310, after the DAG is built
Built(dag, basis, cm, il, r) ==
    IF dag.error # NoError THEN Failed(dag)
    ELSE FirstUnrolled(expand_gates(Dag(dag), basis), cm, il, r, basis)
\* lines 306-347: the error, the DAG and the layout of
\* compile_circuit(quantum_circuit, bg, cm, il, get_layout=True)
CompiledCircuit(quantum_circuit, bg, cm, il, r) ==
    Built(fromQuantumCircuit(quantum_circuit.nq, quantum_circuit.data),
          Names(IF Truthy(bg) THEN Split(bg.val) ELSE <<>>), cm, il, r)

(* ------------------------------------------------------------------ *)
(* The inputs the program is run on                                    *)
(* ------------------------------------------------------------------ *)
\* coupling maps of devices: a line of three qubits in either direction, a
\* line of four, a device of two separate pairs, and a star around qubit 1
Line3 == Some(<<<<0, 1>>, <<1, 2>>>>)
Line3Back == Some(<<<<1, 0>>, <<2, 1>>>>)
Line4 == Some(<<<<0, 1>>, <<2, 1>>, <<2, 3>>>>)
Pairs4 == Some(<<<<0, 1>>, <<2, 3>>>>)
Star4 == Some(<<<<1, 0>>, <<1, 2>>, <<1, 3>>>>)

\* backend descriptors: a local simulator and a real chip
Simulator == [name |-> "local_qasm_simulator", simulator |-> TRUE,
              coupling_map |-> AllToAll, basis_gates |-> Some(DefaultBasisGates)]
Chip == [name |-> "ibmqx_chip", simulator |-> FALSE,
         coupling_map |-> Line3Back, basis_gates |-> Some(DefaultBasisGates)]

\* the descriptor of the hpc simulator
HpcSimulator == [name |-> HpcBackend, simulator |-> TRUE,
                 coupling_map |-> AllToAll, basis_gates |-> Some(<<"u3", ",", "cx", ",", "id">>)]
\* the line of three qubits in the legacy form {0: [1], 1: [2]}
Line3Dict == Dict(<<<<0, <<1>>>>, <<1, <<2>>>>>>)

\* compile_config_default (lines 39-50) with the backend and a coupling map
Config(backend, cm) ==
    [backend |-> backend, config |-> None, basis_gates |-> None, coupling_map |-> cm,
     initial_layout |-> None, shots |-> 1024, max_credits |-> 10, seed |-> 1,
     qobj_id |-> "qobj", hpc |-> None]

\* what the generator may draw as the layout of the second trial: a
\* placement of the virtual qubits on the n physical ones, here the
\* rotations of the identity placement and its reversal
Draws(n) ==
    {[i \in 1..n |-> (i - 1 + r) % n] : r \in 0..(n - 1)} \cup {[i \in 1..n |-> n - i]}
Identity(n) == [i \in 1..n |-> i - 1]
\* the draws that matter for a coupling map: none when nothing is routed
DrawsFor(cm) ==
    IF cm.tag \in {"Some", "dict"} /\ cm.val # <<>> THEN Draws(Cardinality(Coupling(cm).qubits))
    ELSE {Identity(1)}

Circuit(name, nq, data) == [name |-> name, nq |-> nq, data |-> data]

\* the circuits batches are made of
BatchCircuits ==
    { Circuit("one", 1, <<Gate1("h", 0)>>),
      Circuit("bell", 2, <<Gate1("h", 0), Gate2("cx", 0, 1), Measure(0), Measure(1)>>),
      Circuit("far", 3, <<Gate2("cx", 0, 2)>>),
      Circuit("late", 2, <<Measure(0), Gate1("h", 0)>>),
      Circuit("odd", 2, <<Gate1("foo", 1)>>) }

\* a batch refers to its circuit objects in the order of first use; the same
\* object may be listed more than once
Batches ==
    {l \in UNION {[1..n -> 1..n] : n \in 0..MaxBatch} :
        \A k \in DOMAIN l : l[k] <= 1 + Cardinality({l[j] : j \in 1..(k - 1)})}
Objects(l) == 1..Cardinality(Range(l))

NoObjects ==
    [objs |-> <<>>, last |-> [op |-> "", on |-> 0, args |-> <<>>, raised |-> "", value |-> None]]
Idle ==
    /\ heap = NoObjects
    /\ basis_gates = None /\ coupling_map = None /\ hpc = None
    /\ idx = 0
    /\ qobj = [id |-> "", config |-> None, circuits |-> <<>>]
    /\ result = None
    /\ error = NoError

\* compile() is called on a batch
Init ==
    /\ pc = "compile" /\ caller = "compile"
    /\ backend_conf \in {Simulator, Chip}
    /\ compile_config \in {Config(backend_conf.name, cm) : cm \in {None, Line3}}
    /\ list_of_circuits \in Batches
    /\ circuits \in [Objects(list_of_circuits) -> BatchCircuits]
    /\ circuits0 = circuits
    /\ rng \in DrawsFor(ResolveCouplingMap(compile_config.coupling_map, backend_conf))
    /\ cc = NoFrame
    /\ Idle

Spec == Init /\ [][Next]_vars

\* compile() is called on one circuit or on a batch of two, with a
\* configuration that gives, or does not give, an hpc block, a basis and a
\* coupling map
HpcBlocks ==
    {None, Some([multi_shot_optimization |-> FALSE, omp_num_threads |-> 8]),
     Some([omp_num_threads |-> 8]), Some(<<>>)}
ConfigBases ==
    {None, Some(<<>>), Some(<<"u3">>), Some(<<"SU2+CNOT">>), Some(<<"u2", ",", "u3", ",", "cx">>)}
ConfigCircuits ==
    { Circuit("one", 1, <<Gate1("h", 0)>>),
      Circuit("bell", 2, <<Gate1("h", 0), Gate2("cx", 0, 1), Measure(0), Measure(1)>>),
      Circuit("far", 3, <<Gate2("cx", 0, 2)>>),
      Circuit("late", 2, <<Measure(0), Gate1("h", 0)>>) }
InitConfig ==
    /\ pc = "compile" /\ caller = "compile"
    /\ backend_conf \in {Simulator, Chip, HpcSimulator}
    /\ compile_config \in
          {[Config(backend_conf.name, cm) EXCEPT !.hpc = h, !.basis_gates = b] :
              cm \in {None, Line3, Line3Dict}, h \in HpcBlocks, b \in ConfigBases}
    /\ list_of_circuits \in {<<1>>, <<1, 2>>}
    /\ circuits \in [Objects(list_of_circuits) -> ConfigCircuits]
    /\ circuits0 = circuits
    /\ rng \in DrawsFor(ResolveCouplingMap(compile_config.coupling_map, backend_conf))
    /\ cc = NoFrame
    /\ Idle
SpecConfig == InitConfig /\ [][Next]_vars

\* compile() is called on one two-qubit circuit, with any operation list of
\* at most MaxOps gates, measurements, resets and barriers, and no routing
ScanOps ==
    {Gate1("h", 0), Gate1("h", 1), Gate2("cx", 0, 1),
     Measure(0), Measure(1), Reset(0), Barrier(1)}
InitScan ==
    /\ pc = "compile" /\ caller = "compile"
    /\ backend_conf \in {Simulator, Chip}
    /\ compile_config = Config(backend_conf.name, AllToAll)
    /\ list_of_circuits = <<1>>
    /\ circuits \in [{1} -> {Circuit("circ", 2, data) : data \in SeqsUpTo(ScanOps, MaxOps)}]
    /\ circuits0 = circuits
    /\ rng = Identity(1)
    /\ cc = NoFrame
    /\ Idle
NextScan ==
    \/ compile_begin \/ compile_loop \/ compile_job \/ compile_return
    \/ cc_build \/ cc_unroll \/ cc_return
SpecScan == InitScan /\ [][NextScan]_vars

Direct ==
    /\ pc = "cc_build" /\ caller = "direct"
    /\ backend_conf = Simulator
    /\ compile_config = Config(Simulator.name, None)
    /\ list_of_circuits = <<>>
    /\ circuits = <<>>
    /\ circuits0 = circuits
    /\ Idle

\* compile_circuit() is called on a two-qubit circuit of at most MaxGates
\* operations, with one of several bases and no coupling map
UnrollOps ==
    {Gate1(g, 0) : g \in {"h", "s", "sdg", "y", "z", "id", "foo"}}
    \cup {Op("u1", <<1>>, <<"lambda">>), Measure(1)}
    \cup {Gate2(g, 0, 1) : g \in {"cx", "cz", "cy", "swap"}}
Bases ==
    {DefaultBasisGates,
     <<"u3", ",", "cx">>,
     <<"h", ",", "u1", ",", "cx">>,
     <<"u1", ",", "u2", ",", "u3", ",", "id">>}
InitUnroll ==
    /\ Direct
    /\ rng = Identity(1)
    /\ \E data \in SeqsUpTo(UnrollOps, MaxGates), b \in Bases :
          cc = Frame(Circuit("circ", 2, data), Some(b), None, None)
NextUnroll == cc_build \/ cc_unroll \/ cc_return
SpecUnroll == InitUnroll /\ [][NextUnroll]_vars

\* compile_circuit() is called with the default basis and the coupling map
\* of a device, on a circuit of at most MaxCx operations: a three-qubit
\* circuit on a line or on two pairs, or a four-qubit circuit on a star
RouteOps ==
    {Gate2("cx", 0, 1), Gate2("cx", 1, 2), Gate2("cx", 0, 2), Gate2("cx", 2, 0),
     Gate1("h", 0), Gate2("cz", 1, 2)}
StarOps == {Gate2("cx", 0, 1), Gate2("cx", 2, 3), Gate2("cx", 3, 0)}
Layouts == {None, Some([v \in 0..2 |-> 2 - v])}
\* circuits whose cancelling pairs lie inside one another or follow one another
NestedPairs ==
    {<<Gate2("cx", 0, 1), Gate2("cx", 1, 2), Gate2("cx", 1, 2), Gate2("cx", 0, 1)>>,
     <<Gate2("cx", 0, 1), Gate2("cx", 0, 1), Gate2("cx", 0, 1), Gate2("cx", 0, 1)>>,
     <<Gate2("cx", 0, 1), Gate1("h", 2), Gate2("cx", 0, 1), Gate2("cx", 1, 2)>>,
     <<Gate2("cx", 0, 1), Gate2("cx", 1, 2), Gate2("cx", 0, 1)>>}
RouteCalls ==
    {Frame(Circuit("circ", 3, data), Some(DefaultBasisGates), cm, il) :
        data \in SeqsUpTo(RouteOps, MaxCx), cm \in {Line3, Line3Back, Line4, Pairs4},
        il \in Layouts}
    \cup {Frame(Circuit("circ", 4, data), Some(DefaultBasisGates), Star4, None) :
            data \in SeqsUpTo(StarOps, MaxCx)}
    \cup {Frame(Circuit("circ", 3, data), Some(DefaultBasisGates), Line3, None) :
            data \in NestedPairs}
InitRoute ==
    /\ Direct
    /\ cc \in RouteCalls
    /\ rng \in IF cc.initial_layout = None THEN DrawsFor(cc.coupling_map)
               ELSE {Identity(Cardinality(Coupling(cc.coupling_map).qubits))}
SpecRoute == InitRoute /\ [][compile_circuit]_vars

\* compile_circuit() with the router's trials evaluated concurrently, on a
\* three-qubit circuit of at most MaxCx two-qubit gates on a line
TrialOps == {Gate2("cx", 0, 1), Gate2("cx", 0, 2), Gate2("cx", 1, 2)}
TrialCalls ==
    {Frame(Circuit("circ", 3, data), Some(DefaultBasisGates), Line3, None) :
        data \in SeqsUpTo(TrialOps, MaxCx)}
InitTrials ==
    /\ Direct
    /\ cc \in TrialCalls
    /\ rng \in DrawsFor(cc.coupling_map)
NextTrials == cc_build \/ cc_unroll \/ concurrent_swap_mapper
SpecTrials == InitTrials /\ [][NextTrials]_vars

\* compile_circuit() is called on a circuit of one gate of the catalog, on
\* any of its operands among three qubits, and unrolls it one substitution
\* at a time
OperandLists(n) ==
    {q \in UNION {[1..k -> 0..2] : k \in 1..3} :
        Len(q) = n /\ \A i, j \in DOMAIN q : i # j => q[i] # q[j]}
CatalogGates ==
    {Op(g, q, <<>>) : g \in {"h", "s", "sdg", "y", "z", "id", "rv"}, q \in OperandLists(1)}
    \cup {Op("u1", q, <<"lambda">>) : q \in OperandLists(1)}
    \cup {Op("rx", q, <<"theta">>) : q \in OperandLists(1)}
    \cup {Op("rz", q, <<"phi">>) : q \in OperandLists(1)}
    \cup {Op(g, q, <<>>) : g \in {"cx", "cz", "cy", "ch", "swap"}, q \in OperandLists(2)}
    \cup {Op(g, q, <<"theta">>) : g \in {"cu1", "crz", "cry"}, q \in OperandLists(2)}
    \cup {Op("cu3", q, <<"theta", "phi", "lambda">>) : q \in OperandLists(2)}
    \cup {Op(g, q, <<>>) : g \in {"ccx", "cswap"}, q \in OperandLists(3)}
InitCatalog ==
    /\ Direct
    /\ rng = Identity(1)
    /\ \E g \in CatalogGates, b \in {DefaultBasisGates, <<"u3", ",", "cx">>} :
          cc = Frame(Circuit("gate", 3, <<g>>), Some(b), None, None)
NextCatalog == cc_build \/ unroll_step \/ unroll_settled
SpecCatalog ==
    InitCatalog /\ [][NextCatalog]_vars /\ WF_vars(unroll_step) /\ WF_vars(unroll_settled)
       /\ WF_vars(cc_build)

\* a caller holds a gate of the catalog and takes inverses
CatalogObjects ==
    {HGate(p) : p \in Phases} \cup {SGate(p) : p \in Phases} \cup {SdgGate(p) : p \in Phases}
    \cup {YGate(p) : p \in Phases} \cup {ZGate(p) : p \in Phases}
    \cup {IGate} \cup {IdGate(p) : p \in Phases}
    \cup {SwapGate(p) : p \in Phases} \cup {CnotGate(p) : p \in Phases}
    \cup {CzGate(p) : p \in Phases} \cup {CyGate(p) : p \in Phases}
    \cup {CHGate(p) : p \in Phases} \cup {ToffoliGate(p) : p \in Phases}
    \cup {FredkinGate(p) : p \in Phases}
    \cup {U1Gate(t, p) : t \in Angles, p \in Phases}
    \cup {RXGate(t, p) : t \in Angles, p \in Phases}
    \cup {RZGate(t, p) : t \in Angles, p \in Phases}
    \cup {Cu1Gate(t, p) : t \in Angles, p \in Phases}
    \cup {CrzGate(t, p) : t \in Angles, p \in Phases}
    \cup {CRYGate(t) : t \in Angles}
    \cup {Cu3Gate(t, f, l, p) : t \in Angles, f \in Angles, l \in Angles, p \in Phases}
    \cup {RVGate(x, y, z) : x \in Angles, y \in Angles, z \in Angles}
InitGates ==
    /\ pc = "objects" /\ caller = "direct"
    /\ backend_conf = Simulator
    /\ compile_config = Config(Simulator.name, None)
    /\ list_of_circuits = <<>>
    /\ circuits = <<>>
    /\ circuits0 = circuits
    /\ rng = Identity(1)
    /\ cc = NoFrame
    /\ basis_gates = None /\ coupling_map = None /\ hpc = None
    /\ idx = 0
    /\ qobj = [id |-> "", config |-> None, circuits |-> <<>>]
    /\ result = None
    /\ error = NoError
    /\ \E g \in CatalogObjects : heap = Holding(g)
SpecGates == InitGates /\ [][gate_inverse]_vars

\* a caller holds a Parameter and builds expressions from it
InitParam ==
    /\ pc = "objects" /\ caller = "direct"
    /\ backend_conf = Simulator
    /\ compile_config = Config(Simulator.name, None)
    /\ list_of_circuits = <<>>
    /\ circuits = <<>>
    /\ circuits0 = circuits
    /\ rng = Identity(1)
    /\ cc = NoFrame
    /\ basis_gates = None /\ coupling_map = None /\ hpc = None
    /\ idx = 0
    /\ qobj = [id |-> "", config |-> None, circuits |-> <<>>]
    /\ result = None
    /\ error = NoError
    /\ \E p \in ParamNames : heap = [NoObjects EXCEPT !.objs = <<Parameter(p)>>]
NextParam == pe_apply_operation \/ pe_bind \/ pe_float
SpecParam == InitParam /\ [][NextParam]_vars

(* ------------------------------------------------------------------ *)
(* Properties                                                          *)
(* ------------------------------------------------------------------ *)
\* the circuit at position k of the batch, as it was when compile was called
Given(k) == circuits0[list_of_circuits[k]]
\* the loop of compile has gone through lines 200-220 for position k
Scanned(k) == pc # "compile" /\ (idx > k \/ (idx = k /\ pc # "loop"))
\* compile raised while it was at position k
RaisedAt(k) == pc = "raised" /\ idx = k
\* the qubits measured before position j of an operation list
MeasuredBefore(data, j) == {data[i].qargs[1] : i \in {m \in 1..(j - 1) : IsMeasure(data[m])}}
\* some operation, of any kind, acts on a qubit measured earlier in the list
OpAfterMeasure(data) ==
    \E j \in DOMAIN data : Range(data[j].qargs) \cap MeasuredBefore(data, j) # {}
\* some gate acts on a qubit measured earlier in the list
GateAfterMeasure(data) ==
    \E j \in DOMAIN data :
        IsGate(data[j]) /\ Range(data[j].qargs) \cap MeasuredBefore(data, j) # {}
MeasurementOrderingError(k) ==
    Error("QISKitError", compile_config.backend, Given(k).name, "")

\* C1 as stated: on a backend that is not a simulator, once compile has
\* scanned a circuit in which any operation, of any kind, acts on a qubit
\* that an earlier measurement has measured, compile has raised an error
\* that names the backend and the circuit.
C1_AnyOperationRaises ==
    ~backend_conf.simulator =>
        \A k \in DOMAIN list_of_circuits :
            (Scanned(k) /\ OpAfterMeasure(Given(k).data)) =>
                (RaisedAt(k) /\ error = MeasurementOrderingError(k))

\* C1 amended: on a backend that is not a simulator, once compile has scanned
\* a circuit in which a gate (an operation other than a measurement, a reset
\* or a barrier) acts on a qubit that an earlier measurement has measured,
\* compile has raised an error that names the backend and the circuit; and
\* the scan raises for no other circuit.
C1_GateAfterMeasureRaises ==
    ~backend_conf.simulator =>
        \A k \in DOMAIN list_of_circuits :
            /\ (Scanned(k) /\ GateAfterMeasure(Given(k).data)) =>
                   (RaisedAt(k) /\ error = MeasurementOrderingError(k))
            /\ (RaisedAt(k) /\ error.kind = "QISKitError") =>
                   GateAfterMeasure(Given(k).data)
\* compile has raised for a circuit whose second operand of a gate was measured
C1_Raised ==
    /\ ~backend_conf.simulator
    /\ RaisedAt(1) /\ error = MeasurementOrderingError(1)
    /\ \E j \in DOMAIN Given(1).data :
          /\ Given(1).data[j].name = "cx"
          /\ MeasuredBefore(Given(1).data, j) = {1}

\* every measurement of an operation list directly follows a barrier on the
\* qubit it measures
BarrierBeforeEachMeasure(data) ==
    \A i \in DOMAIN data :
        IsMeasure(data[i]) => (i > 1 /\ data[i - 1] = Barrier(data[i].qargs[1]))

\* C2: on a backend that is not a simulator, once compile has inserted the
\* barriers in a circuit without a gate after a measurement, every
\* measurement of the circuit's operation list is immediately preceded by a
\* barrier on the qubit it measures.
C2_BarrierBeforeEachMeasure ==
    ~backend_conf.simulator =>
        \A k \in DOMAIN list_of_circuits :
            (Scanned(k) /\ ~GateAfterMeasure(Given(k).data)) =>
                BarrierBeforeEachMeasure(circuits[list_of_circuits[k]].data)
\* compile has inserted the barriers in a circuit of two measurements
C2_TwoMeasurements ==
    /\ ~backend_conf.simulator
    /\ Scanned(1) /\ ~RaisedAt(1)
    /\ Given(1).data = <<Measure(0), Measure(1)>>
    /\ circuits[1].data = <<Barrier(0), Barrier(1), Measure(0), Measure(1)>>

\* the coupling map compile resolved before the loop (lines 198-199)
Resolved == ResolveCouplingMap(compile_config.coupling_map, backend_conf)
\* compile_circuit is running on, or has just returned for, position k
Compiling(k) ==
    /\ caller = "compile" /\ idx = k
    /\ pc \in {"cc_build", "cc_unroll", "cc_swap_mapper", "cc_expand_swaps",
               "cc_direction_mapper", "cc_cx_cancellation", "cc_optimize_1q_gates",
               "cc_return", "job"}
\* position k needs no routing: one qubit, or the all-to-all sentinel
Unrouted(k) == Given(k).nq = 1 \/ Resolved = AllToAll

\* C3: for every circuit with exactly one qubit, and for every circuit when
\* the coupling map resolves to "all-to-all", the router is not run whatever
\* the coupling map holds, and the job entry has layout null and coupling_map
\* null.
C3_NoRouting ==
    \A k \in DOMAIN list_of_circuits :
        Unrouted(k) =>
            /\ Compiling(k) =>
                   (pc # "cc_swap_mapper" /\ "swap_mapper" \notin Range(cc.passes))
            /\ k \in DOMAIN qobj.circuits =>
                   /\ qobj.circuits[k].config.layout = None
                   /\ qobj.circuits[k].config.coupling_map = None
\* a job entry of a one-qubit circuit compiled with a coupling map configured
C3_OneQubitJob ==
    \E k \in DOMAIN qobj.circuits :
        /\ Given(k).nq = 1
        /\ compile_config.coupling_map = Line3
        /\ qobj.circuits[k].config.coupling_map = None

\* C4: no state crosses circuit boundaries: the coupling map and the basis
\* gates applied to the circuit at position k, and written to its job
\* entry, are those compile applies to the circuit alone under the same
\* configuration and backend, whichever circuits come before it.
C4_AsCompiledAlone ==
    \A k \in DOMAIN list_of_circuits :
        /\ Compiling(k) =>
               /\ cc.coupling_map = NoRouting(Resolved, Given(k).nq)
               /\ cc.basis_gates = ResolveBasisGates(compile_config.basis_gates, backend_conf)
               /\ cc.initial_layout = compile_config.initial_layout
        /\ k \in DOMAIN qobj.circuits =>
               qobj.circuits[k].config.coupling_map = NoRouting(Resolved, Given(k).nq)
\* the two-qubit circuit "bell" after the one-qubit circuit "one": its job
\* entry has no coupling map and no layout, though a coupling map is configured
C4_AfterOneQubit ==
    /\ Len(list_of_circuits) = 2 /\ Len(qobj.circuits) = 2
    /\ Given(1).name = "one" /\ Given(2).name = "bell"
    /\ Resolved = Line3
    /\ qobj.circuits[2].config.coupling_map = None
    /\ qobj.circuits[2].config.layout = None
\* the same circuit compiled alone has both
C4_Alone ==
    /\ Len(list_of_circuits) = 1 /\ Len(qobj.circuits) = 1
    /\ Given(1).name = "bell"
    /\ Resolved = Line3
    /\ qobj.circuits[1].config.coupling_map = Line3
    /\ qobj.circuits[1].config.layout # None

\* the coupling map compile holds when it calls compile_circuit at position
\* k: lines 203-206 applied at each position up to k
RECURSIVE CouplingAt(_)
CouplingAt(k) == IF k = 0 THEN Resolved ELSE NoRouting(CouplingAt(k - 1), Given(k).nq)
\* how often the circuit object of position k is listed up to position k
Occurrences(k) ==
    Cardinality({j \in 1..k : list_of_circuits[j] = list_of_circuits[k]})
\* an operation list after lines 209-220 ran on it n times
RECURSIVE WithBarriers(_, _)
WithBarriers(data, n) ==
    IF n = 0 THEN data
    ELSE WithBarriers(InsertBarriers(data, ScanMeasurements(data).qasm_idx,
                                     ScanMeasurements(data).measured_qubits), n - 1)
\* the circuit compile hands to compile_circuit at position k
CircuitAt(k) ==
    IF backend_conf.simulator THEN Given(k)
    ELSE [Given(k) EXCEPT !.data = WithBarriers(@, Occurrences(k))]
\* what compile_circuit makes of position k
OutcomeAt(k) ==
    CompiledCircuit(CircuitAt(k), ResolveBasisGates(compile_config.basis_gates, backend_conf),
                    CouplingAt(k), compile_config.initial_layout, rng)
\* the error processing position k raises, NoError when there is none
ErrorAt(k) ==
    IF ~backend_conf.simulator /\ GateAfterMeasure(Given(k).data)
    THEN MeasurementOrderingError(k)
    ELSE OutcomeAt(k).error
\* compile is through with position k
Through(k) == Scanned(k) /\ ~Compiling(k)

\* C8: compile is fail-fast: once compile is through with a position whose
\* processing raises an error, compile has raised that error at that
\* position; after the raise compile takes no further step, the entries of
\* the circuits before it are all there are, and nothing is returned; a job
\* description is returned only when no error was raised.
C8_FailFast ==
    /\ \A k \in DOMAIN list_of_circuits :
           (Through(k) /\ ErrorAt(k) # NoError) => (RaisedAt(k) /\ error = ErrorAt(k))
    /\ (pc = "raised" /\ idx >= 1) =>
           /\ result = None
           /\ Len(qobj.circuits) = idx - 1
           /\ ~ENABLED Next
    /\ result # None => (error = NoError /\ pc = "done")
\* the second circuit of a batch raised after the first was compiled
C8_RaisedAtSecond ==
    /\ RaisedAt(2) /\ ErrorAt(2) # NoError /\ ErrorAt(1) = NoError
    /\ Len(list_of_circuits) = 2 /\ Len(qobj.circuits) = 1

\* C9: when compile succeeds on a list of n circuits, the job description
\* it returns has exactly n entries, and entry i carries the name, the
\* compiled DAG and the layout of the circuit at position i of the list.
C9_OneEntryPerCircuit ==
    pc = "done" =>
        /\ result = Some(qobj)
        /\ Len(qobj.circuits) = Len(list_of_circuits)
        /\ \A i \in DOMAIN list_of_circuits :
               /\ qobj.circuits[i].name = Given(i).name
               /\ qobj.circuits[i].compiled_circuit = OutcomeAt(i).dag
               /\ qobj.circuits[i].config.layout = ListLayout(OutcomeAt(i).layout)
\* compile has returned the entries of two different circuits
C9_TwoEntries ==
    /\ pc = "done" /\ Len(list_of_circuits) = 2
    /\ Given(1).name # Given(2).name
    /\ qobj.circuits[1].compiled_circuit # qobj.circuits[2].compiled_circuit

\* the two-qubit nodes of the DAG of compile_circuit
TwoQubitNodes ==
    {i \in DOMAIN cc.compiled_dag_circuit.ops :
        IsTwoQubitGate(cc.compiled_dag_circuit.ops[i])}
\* the ordered operand pair of a node
Operands(i) ==
    <<cc.compiled_dag_circuit.ops[i].qargs[1], cc.compiled_dag_circuit.ops[i].qargs[2]>>

\* C5: once the router and the direction corrector have run with coupling
\* graph C, the ordered (control, target) pair of every two-qubit node of
\* the DAG is a directed edge of C.
C5_DirectedEdges ==
    "direction_mapper" \in Range(cc.passes) =>
        \A i \in TwoQubitNodes : Operands(i) \in Coupling(cc.coupling_map).edges
\* the router and the direction corrector have run on two cx gates that share
\* no qubit, for a star: the first cx has the operands of two leaves
C5_TwoLeaves ==
    /\ "direction_mapper" \in Range(cc.passes)
    /\ cc.quantum_circuit.data = <<Gate2("cx", 0, 1), Gate2("cx", 2, 3)>>
    /\ cc.coupling_map = Star4
    /\ \E i \in TwoQubitNodes :
          1 \notin Range(cc.compiled_dag_circuit.ops[i].qargs)

\* the passes of compile_circuit when a coupling map is in effect
AllPasses ==
    <<"unroll", "swap_mapper", "unroll", "direction_mapper", "cx_cancellation",
      "optimize_1q_gates">>
\* the number of passes that have finished when compile_circuit is at a place
PassesBefore(place) ==
    CASE place = "cc_build" -> 0
      [] place = "cc_unroll" -> 0
      [] place = "cc_swap_mapper" -> 1
      [] place = "cc_expand_swaps" -> 2
      [] place = "cc_direction_mapper" -> 3
      [] place = "cc_cx_cancellation" -> 4
      [] place = "cc_optimize_1q_gates" -> 5
      [] OTHER -> 6

\* C6: with a coupling map in effect compile_circuit runs, once each and in
\* this order, the unroller, the router, the unroller again, the direction
\* corrector, the cancellation and the fusion: the passes that have run are
\* always the first ones of that list, a pass starts only when exactly the
\* ones before it have finished, and the router starts on a DAG without a
\* gate outside the basis.
C6_PassOrder ==
    Truthy(cc.coupling_map) =>
        /\ Len(cc.passes) <= Len(AllPasses)
        /\ cc.passes = SubSeq(AllPasses, 1, Len(cc.passes))
        /\ pc # "raised" => Len(cc.passes) = PassesBefore(pc)
        /\ pc = "cc_swap_mapper" =>
               NonBasis(cc.compiled_dag_circuit.ops, Names(cc.basis)) = {}
\* compile_circuit has run all six passes on a circuit with a gate outside
\* the basis
C6_AllPassesRan ==
    /\ pc = "cc_done" /\ cc.passes = AllPasses
    /\ \E i \in DOMAIN cc.quantum_circuit.data : cc.quantum_circuit.data[i].name = "cz"

\* the names a gate's definition is made of
DefinitionNames(name) ==
    {Definition(Op(name, <<0, 1, 2>>, <<"theta", "phi", "lambda">>))[i].name :
        i \in DOMAIN Definition(Op(name, <<0, 1, 2>>, <<"theta", "phi", "lambda">>))}
\* a gate name reaches the basis within depth substitutions
RECURSIVE Reaches(_, _, _)
Reaches(name, basis, depth) ==
    \/ name \in basis \cup OpaqueGates
    \/ /\ HasDefinition(name) /\ depth > 0
       /\ \A n \in DefinitionNames(name) : Reaches(n, basis, depth - 1)

\* C7: after an unroll pass with basis B every gate of the DAG has a name in
\* B or is opaque; when the pass fails instead, it fails with
\* UnsupportedGateError naming a gate of the circuit that does not reach B
\* within the recursion bound, and it fails whenever there is such a gate.
C7_UnrollToBasis ==
    /\ cc.passes # <<>> =>
           /\ NonBasis(cc.compiled_dag_circuit.ops, Names(cc.basis)) = {}
           /\ \A i \in DOMAIN cc.quantum_circuit.data :
                  IsGate(cc.quantum_circuit.data[i]) =>
                      Reaches(cc.quantum_circuit.data[i].name, Names(cc.basis), MaxDepth)
    /\ pc = "raised" =>
           /\ error.kind = "UnsupportedGateError"
           /\ ~Reaches(error.gate, Names(cc.basis), MaxDepth)
           /\ \E i \in DOMAIN cc.quantum_circuit.data :
                  /\ IsGate(cc.quantum_circuit.data[i])
                  /\ cc.quantum_circuit.data[i].name = error.gate
\* an unroll pass has taken a cz down to u2 and cx in two substitutions
C7_TwoLevels ==
    /\ cc.passes = <<"unroll">>
    /\ cc.quantum_circuit.data = <<Gate2("cz", 0, 1)>>
    /\ cc.compiled_dag_circuit.ops =
           <<Op("u2", <<1>>, <<"0", "pi">>), Gate2("cx", 0, 1), Op("u2", <<1>>, <<"0", "pi">>)>>

\* the DAG the router was called on, and the results of its trials
RouterInput ==
    Dag(expand_gates(Dag(fromQuantumCircuit(cc.quantum_circuit.nq, cc.quantum_circuit.data)),
                     Names(cc.basis)))
Trials ==
    TrialResults(RouterInput, Coupling(cc.coupling_map), cc.initial_layout, NumTrials, rng)
\* trial t is the one the router returned: its operations, its layout and
\* its SWAP count are the router's result
Returned(results, t) ==
    /\ ~results[t].failed
    /\ cc.compiled_dag_circuit.ops = results[t].ops
    /\ cc.final_layout = Some(results[t].layout)
    /\ cc.swaps = results[t].swaps
\* trial t has the least SWAP count, and no earlier trial has it
EarliestMinimal(results, t) ==
    /\ ~results[t].failed
    /\ \A u \in DOMAIN results : ~results[u].failed => results[t].swaps <= results[u].swaps
    /\ \A u \in 1..(t - 1) : ~results[u].failed => results[t].swaps < results[u].swaps

\* C10: the router returns the result of the trial, among its K trials,
\* whose total of inserted SWAPs is the least, and of the earliest such trial
\* when several have that least total.
C10_EarliestMinimalTrial ==
    pc = "cc_expand_swaps" =>
        \E t \in DOMAIN Trials : EarliestMinimal(Trials, t) /\ Returned(Trials, t)
\* the router has returned a trial after the first, which needed more SWAPs
C10_LaterTrialWins ==
    /\ pc = "cc_expand_swaps"
    /\ ~Trials[1].failed /\ cc.swaps < Trials[1].swaps
    /\ \E t, u \in DOMAIN Trials :
          t < u /\ Returned(Trials, t) /\ ~Trials[u].failed /\ Trials[u].swaps = cc.swaps

\* the router's answer when its trials run one after the other
Sequential ==
    swap_mapper(RouterInput, Coupling(cc.coupling_map), cc.initial_layout, NumTrials, rng)
\* trial t has not started, and holds the layout it is to start from
Untouched(t) ==
    cc.trials[t] = NewTrial(TrialLayout(cc.initial_layout, rng, t, RouterInput.nq,
                                        Cardinality(Coupling(cc.coupling_map).qubits)))
Started(t) == cc.trials[t].failed \/ cc.trials[t].layer > 0
Finished(t) == TrialDone(cc.trials[t], Layers(RouterInput.ops))

\* C11: routing trials are isolated.  While the trials run, in whatever
\* order their steps are taken, the DAG the router was called on is as it
\* was, a trial that has not started holds its own starting layout, and a
\* trial that has finished has the result it has when it runs alone; the
\* result the router commits (DAG, layout, SWAP count) is the one the
\* trials give when they run one after the other.
C11_TrialsIsolated ==
    /\ pc = "trials" =>
          /\ cc.compiled_dag_circuit = RouterInput
          /\ \A t \in DOMAIN cc.trials :
                /\ ~Started(t) => Untouched(t)
                /\ Finished(t) => TrialResult(cc.trials[t]) = Trials[t]
    /\ (pc = "cc_expand_swaps" /\ cc.passes = <<"unroll", "swap_mapper">>) =>
          /\ Sequential.error = NoError
          /\ cc.compiled_dag_circuit = Dag(Sequential)
          /\ cc.final_layout = Sequential.layout
          /\ cc.swaps = Sequential.swaps
\* the last trial has finished with fewer SWAPs than the first, which has
\* routed one layer of two, while the second has not started
C11_OutOfOrder ==
    /\ pc = "trials"
    /\ Finished(NumTrials) /\ ~Finished(1) /\ Started(1) /\ ~Started(2)
    /\ cc.trials[NumTrials].swaps < cc.trials[1].swaps
\* the trials ran in some order and the router committed a later trial
C11_Committed ==
    /\ pc = "cc_expand_swaps" /\ cc.passes = <<"unroll", "swap_mapper">>
    /\ ~Trials[1].failed /\ cc.swaps < Trials[1].swaps

\* the next node after node i on wire q (0: none)
NextOn(ops, q, i) ==
    IF \E j \in (i + 1)..Len(ops) : q \in Range(ops[j].qargs)
    THEN Lowest({j \in (i + 1)..Len(ops) : q \in Range(ops[j].qargs)})
    ELSE 0
\* node i is a two-qubit gate that is its own inverse, and the next node on
\* both of its wires is one node, the same gate on the same operands
InversePairAt(ops, i) ==
    /\ IsTwoQubitGate(ops[i]) /\ ops[i].name \in SelfInverse
    /\ NextOn(ops, ops[i].qargs[1], i) # 0
    /\ NextOn(ops, ops[i].qargs[1], i) = NextOn(ops, ops[i].qargs[2], i)
    /\ ops[NextOn(ops, ops[i].qargs[1], i)] = ops[i]

\* C12: the cancellation pass is idempotent.  The DAG the pass leaves is a
\* fixed point of the pass (applying it twice gives what applying it once
\* gives), and it holds no two adjacent mutually-inverse two-qubit gates on
\* the same qubit pair with nothing between them on either qubit.
C12_CancellationIdempotent ==
    (pc = "cc_optimize_1q_gates" /\ cc.passes[Len(cc.passes)] = "cx_cancellation") =>
        /\ cx_cancellation(cc.compiled_dag_circuit) = cc.compiled_dag_circuit
        /\ \A i \in DOMAIN cc.compiled_dag_circuit.ops :
              ~InversePairAt(cc.compiled_dag_circuit.ops, i)
\* the pass has taken out a pair that lay inside another pair, and then the
\* outer pair
C12_NestedPairsGone ==
    /\ pc = "cc_optimize_1q_gates"
    /\ cc.quantum_circuit.data =
          <<Gate2("cx", 0, 1), Gate2("cx", 1, 2), Gate2("cx", 1, 2), Gate2("cx", 0, 1)>>
    /\ cc.compiled_dag_circuit.ops = <<>>

\* the basis set the caller asked for, and a circuit all of whose gates are in it
RequestedBasis == IF Truthy(cc.basis_gates) THEN Names(Split(cc.basis_gates.val)) ELSE {}
AllInBasis ==
    \A i \in DOMAIN cc.quantum_circuit.data :
        IsGate(cc.quantum_circuit.data[i]) => cc.quantum_circuit.data[i].name \in RequestedBasis

\* C13: for a circuit all of whose gates are in the requested basis the
\* unroll pass is a no-op: it does not fail, and on every wire the DAG after
\* the pass has the operations of the circuit, in the circuit's order.
C13_UnrollNoOp ==
    AllInBasis =>
        /\ pc # "raised"
        /\ cc.passes # <<>> =>
              /\ Len(cc.compiled_dag_circuit.ops) = Len(cc.quantum_circuit.data)
              /\ \A w \in 0..(cc.quantum_circuit.nq - 1) :
                    WireChain(cc.compiled_dag_circuit.ops, w)
                        = WireChain(cc.quantum_circuit.data, w)
\* the pass ran with h in the basis on a circuit with an h, which has a
\* decomposition rule, and a cx
C13_RuleNotApplied ==
    /\ cc.passes = <<"unroll">>
    /\ RequestedBasis = {"h", "u1", "cx"}
    /\ cc.quantum_circuit.data = <<Gate1("h", 0), Gate2("cx", 0, 1)>>
    /\ AllInBasis

\* compile is past its header (lines 147-199) and did not raise in it
HeaderBuilt == pc # "compile" /\ qobj.config # None
\* compile raised in its header: nothing of the job description was built
RaisedInHeader == pc = "raised" /\ qobj.config = None
\* the hpc block the caller supplied lacks a required key
LacksHpcKey ==
    /\ ~IsNone(compile_config.hpc)
    /\ \E key \in {"multi_shot_optimization", "omp_num_threads"} :
          key \notin DOMAIN compile_config.hpc.val

\* C14: the top-level config of the job description has the key hpc if and
\* only if the backend is the hpc simulator; for that backend its value is
\* the supplied block, or the default block when none was supplied; for
\* every other backend a supplied block, well-formed or not, is dropped and
\* the header is built without an error.
C14_HpcKey ==
    /\ HeaderBuilt =>
          /\ "hpc" \in DOMAIN qobj.config <=> compile_config.backend = HpcBackend
          /\ compile_config.backend = HpcBackend =>
                qobj.config.hpc = IF IsNone(compile_config.hpc)
                                  THEN Some([multi_shot_optimization |-> TRUE,
                                             omp_num_threads |-> 16])
                                  ELSE compile_config.hpc
    /\ compile_config.backend # HpcBackend => ~RaisedInHeader
    /\ pc = "done" => result = Some(qobj)
\* compile returned for a backend other than the hpc simulator, called with
\* a block that lacks a key
C14_BlockDropped ==
    /\ pc = "done"
    /\ compile_config.backend # HpcBackend
    /\ LacksHpcKey
    /\ "hpc" \notin DOMAIN result.val.config
\* compile returned for the hpc simulator, called without a block
C14_DefaultBlock ==
    /\ pc = "done"
    /\ compile_config.backend = HpcBackend
    /\ IsNone(compile_config.hpc)
    /\ result.val.config.hpc = Some(HpcDefault)

\* C15: when the backend is the hpc simulator and the supplied hpc block
\* lacks multi_shot_optimization or omp_num_threads, compile raises in its
\* header (QISKitError, 'Unknown HPC parameter format!') and returns no job
\* description.
C15_MalformedHpcRaises ==
    (compile_config.backend = HpcBackend /\ LacksHpcKey) =>
        /\ pc \in {"compile", "raised"}
        /\ pc = "raised" =>
              /\ RaisedInHeader
              /\ error = Error("QISKitError", HpcBackend, "", "")
        /\ result = None
\* compile has raised on a block that has one of the two keys
C15_OneKeyMissing ==
    /\ pc = "raised"
    /\ compile_config.backend = HpcBackend
    /\ compile_config.hpc = Some([omp_num_threads |-> 8])

\* the job entry compile has just appended, for the circuit whose frame
\* compile_circuit left behind
JustAppended == pc = "loop" /\ idx > 1
LastJob == qobj.circuits[idx - 1]
RouterRan == \E i \in DOMAIN cc.passes : cc.passes[i] = "swap_mapper"
LayoutPairs(layout) == {<<v, layout[v]>> : v \in DOMAIN layout}

\* C16: a job entry's config records what was used for its circuit.  Its
\* coupling_map is the coupling map compile_circuit was given, and is null
\* when the router did not run; its basis_gates is the basis compile_circuit
\* was given; its seed is the configured seed; its layout is null when the
\* router did not run, and else the list of [virtual, physical] pairs with
\* exactly the entries of the router's final layout.
C16_JobConfigAsUsed ==
    JustAppended =>
        /\ LastJob.name = cc.quantum_circuit.name
        /\ LastJob.config.coupling_map = cc.coupling_map
        /\ LastJob.config.basis_gates = cc.basis_gates
        /\ LastJob.config.seed = compile_config.seed
        /\ ~RouterRan =>
              /\ LastJob.config.coupling_map = None
              /\ LastJob.config.layout = None
        /\ RouterRan =>
              /\ LastJob.config.coupling_map # None
              /\ LastJob.config.layout.tag = "Some"
              /\ Range(LastJob.config.layout.val) = LayoutPairs(cc.final_layout.val)
              /\ Len(LastJob.config.layout.val) = Cardinality(DOMAIN cc.final_layout.val)
\* the second entry of a batch was routed, with the descriptor's coupling
\* map and basis because the configuration's were unusable, and its layout
\* is not the identity
C16_RoutedWithDescriptor ==
    /\ JustAppended /\ idx = 3 /\ RouterRan
    /\ compile_config.coupling_map = None
    /\ compile_config.basis_gates = Some(<<"u3">>)
    /\ LastJob.config.coupling_map = Line3Back
    /\ LastJob.config.basis_gates = Some(DefaultBasisGates)
    /\ \E v \in DOMAIN cc.final_layout.val : cc.final_layout.val[v] # v

\* compile has just resolved the basis and the coupling map (lines 189-199)
JustResolved == HeaderBuilt /\ pc = "loop" /\ idx = 1
\* the configuration gives a basis (a non-empty string) or a coupling map
\* (a non-empty list or mapping)
GivesBasis == Truthy(compile_config.basis_gates)
GivesCoupling == Truthy(compile_config.coupling_map)
Fields(basis) == Split(basis.val)

\* C17 as stated: what the configuration gives takes precedence over the
\* backend descriptor, what it does not give comes from the descriptor, and
\* the header is built without an error.
C17_ConfigFirst ==
    /\ JustResolved =>
          /\ basis_gates = IF GivesBasis THEN compile_config.basis_gates
                           ELSE backend_conf.basis_gates
          /\ coupling_map = IF GivesCoupling THEN compile_config.coupling_map
                            ELSE backend_conf.coupling_map
    /\ ~LacksHpcKey => ~RaisedInHeader
\* C17, amended: a configured coupling map, and a configured basis of two
\* or more comma-separated fields, take precedence over the backend
\* descriptor; a configured basis of a single field is replaced by
\* 'u1,u2,u3,cx,id'; what the configuration does not give comes from the
\* descriptor; and none of this raises an error.
C17_ConfigFirstUnlessOneField ==
    /\ JustResolved =>
          /\ basis_gates = IF ~GivesBasis THEN backend_conf.basis_gates
                           ELSE IF Len(Fields(compile_config.basis_gates)) >= 2
                           THEN compile_config.basis_gates
                           ELSE Some(<<"u1", ",", "u2", ",", "u3", ",", "cx", ",", "id">>)
          /\ coupling_map = IF GivesCoupling THEN compile_config.coupling_map
                            ELSE backend_conf.coupling_map
    /\ ~LacksHpcKey => ~RaisedInHeader
\* the configuration's basis and coupling map won over a descriptor that
\* has other ones
C17_ConfigWon ==
    /\ JustResolved
    /\ GivesBasis /\ basis_gates = compile_config.basis_gates
    /\ basis_gates # backend_conf.basis_gates
    /\ GivesCoupling /\ coupling_map = compile_config.coupling_map
    /\ coupling_map # backend_conf.coupling_map
\* the descriptor's basis and coupling map were substituted
C17_DescriptorUsed ==
    /\ JustResolved
    /\ ~GivesBasis /\ ~GivesCoupling
    /\ basis_gates = Some(<<"u3", ",", "cx", ",", "id">>)
    /\ coupling_map = AllToAll

\* a configured basis of one field was replaced by the default basis, which
\* is neither the configuration's nor the descriptor's
C17_OneFieldReplaced ==
    /\ JustResolved
    /\ compile_config.basis_gates = Some(<<"u3">>)
    /\ backend_conf.basis_gates = Some(<<"u3", ",", "cx", ",", "id">>)
    /\ basis_gates = Some(DefaultBasisGates)

\* compile_circuit was called on [h q0; cx q0,q1; measure q0; measure q1]
\* with the basis u1,u2,u3,cx,id and no coupling map
BellScenario ==
    /\ cc.quantum_circuit.data =
          <<Gate1("h", 0), Gate2("cx", 0, 1), Measure(0), Measure(1)>>
    /\ cc.basis_gates = Some(<<"u1", ",", "u2", ",", "u3", ",", "cx", ",", "id">>)
    /\ IsNone(cc.coupling_map)

\* C18: compiling [H(q0), CX(q0,q1), Measure(q0), Measure(q1)] with basis
\* {u1,u2,u3,cx,id} and no coupling map does not fail, puts a single
\* u2(0, pi) on q0 in the place of the H node, leaves the CX node and the
\* measurements as they are, and gives the final layout null.
C18_BellCompiled ==
    BellScenario =>
        /\ pc # "raised"
        /\ cc.passes # <<>> =>
              /\ cc.compiled_dag_circuit.ops =
                    <<Op("u2", <<0>>, <<"0", "pi">>), Gate2("cx", 0, 1), Measure(0), Measure(1)>>
              /\ cc.final_layout = None
              /\ cc.passes = <<"unroll">>
        /\ (pc = "loop" /\ idx > 1) => LastJob.config.layout = None
\* compile has returned the job description of that circuit
C18_BellReturned ==
    /\ BellScenario
    /\ pc = "done" /\ Len(list_of_circuits) = 1
    /\ result.val.circuits[1].compiled_circuit.ops[1] = Op("u2", <<0>>, <<"0", "pi">>)

\* the configuration gives the coupling map as a mapping
MappingGiven == compile_config.coupling_map.tag = "dict"

\* C19: a coupling map supplied as a mapping is accepted without error and
\* is in edge-list form where it is used for routing and where it is
\* recorded in the job config.
C19_MappingNormalized ==
    MappingGiven =>
        /\ compile_config.backend # HpcBackend => pc # "raised"
        /\ cc.coupling_map.tag # "dict"
        /\ \A k \in DOMAIN qobj.circuits : qobj.circuits[k].config.coupling_map.tag # "dict"
\* compile has returned a job entry for a routed circuit, called with the
\* line of three qubits as a mapping
C19_MappingRecorded ==
    /\ MappingGiven
    /\ pc = "done" /\ RouterRan
    /\ result.val.circuits[1].config.coupling_map = Line3Dict
\* the mapping is accepted: compile has returned, and the routed circuit
\* is the one the edge list [[0, 1], [1, 2]] gives
C19_MappingAccepted ==
    /\ MappingGiven
    /\ pc = "done" /\ RouterRan
    /\ Coupling(cc.coupling_map) = Coupling(Line3)

\* the nodes met when the links of wire w are followed from node m, for at
\* most fuel steps
RECURSIVE Follow(_, _, _, _)
NextNodes(links, w, m) == {l[3] : l \in {k \in links : k[1] = w /\ k[2] = m}}
FollowOn(links, w, next, fuel) ==
    IF next = {} THEN <<>>
    ELSE <<Lowest(next)>> \o Follow(links, w, Lowest(next), fuel - 1)
Follow(links, w, m, fuel) ==
    IF fuel = 0 THEN <<>> ELSE FollowOn(links, w, NextNodes(links, w, m), fuel)
\* the nodes that touch wire w, in the order of the program
Touching(ops, w) == SelectSeq([n \in DOMAIN ops |-> n], LAMBDA n : w \in Range(ops[n].qargs))
\* a graph is acyclic when taking away, again and again, the nodes no link
\* leads to from a node still there takes every node away
RECURSIVE Peels(_, _)
Sources(nodes, links) == {n \in nodes : ~\E l \in links : l[3] = n /\ l[2] \in nodes}
PeelOff(nodes, links, sources) ==
    IF sources = {} THEN FALSE ELSE Peels(nodes \ sources, links)
Peels(nodes, links) == nodes = {} \/ PeelOff(nodes, links, Sources(nodes, links))
WellLinked(dag, links) ==
    /\ \A w \in 0..(dag.nq - 1) :
          /\ Follow(links, w, 0, Len(dag.ops) + 1) = Touching(dag.ops, w)
          /\ \A m \in 0..Len(dag.ops) : Cardinality(NextNodes(links, w, m)) <= 1
    /\ Peels(DOMAIN dag.ops, links)

RECURSIVE Unbound(_)
Unbound(t) ==
    IF t.k = "const" THEN {}
    ELSE IF t.k = "param" THEN {t.name}
    ELSE Unbound(t.l[1]) \cup Unbound(t.r[1])
\* the simplified form of the expression as it was written
RECURSIVE Simplified(_)
Simplified(t) ==
    IF t.k = "const" THEN Expr(t.l[1], [q \in ParamNames |-> 0])
    ELSE IF t.k = "param" THEN Expr(0, [q \in ParamNames |-> IF q = t.name THEN 1 ELSE 0])
    ELSE IF t.k = "add" THEN ExprAdd(Simplified(t.l[1]), Simplified(t.r[1]))
    ELSE IF t.k = "sub" THEN ExprSub(Simplified(t.l[1]), Simplified(t.r[1]))
    ELSE ExprMul(Simplified(t.l[1]), Simplified(t.r[1]).const)
\* an object is as the operations that made it left it
AsMade(obj) ==
    /\ obj.parameters = Unbound(obj.written)
    /\ obj.parameter_symbols = obj.parameters
    /\ obj.symbol_expr = Simplified(obj.written)
Receiver == heap.objs[heap.last.on]

\* C21: numeric coercion of an expression raises TypeError whenever its set
\* of unbound parameters is not empty, and, after any sequence of
\* arithmetic operations and binds, succeeds only when every parameter that
\* entered the expression has been bound.
C21_CoercionNeedsAllBound ==
    heap.last.op = "float" =>
        /\ Receiver.parameters # {} => heap.last.raised = "TypeError"
        /\ heap.last.raised = "" =>
              /\ Unbound(Receiver.written) = {}
              /\ heap.last.value = Number(Simplified(Receiver.written).const)
        /\ Unbound(Receiver.written) # {} => heap.last.raised = "TypeError"
\* coercion was refused for an expression whose only parameter has vanished
\* from it by simplification
C21_VanishedNotBound ==
    /\ heap.last.op = "float" /\ heap.last.raised = "TypeError"
    /\ free_symbols(Receiver.symbol_expr) = {}
    /\ Receiver.parameters # {}
\* coercion succeeded after two parameters entered and both were bound
C21_BoundThenCoerced ==
    /\ heap.last.op = "float" /\ heap.last.raised = ""
    /\ \E i \in DOMAIN heap.objs : heap.objs[i].parameters = ParamNames

C22_UnknownRefused ==
    /\ heap.last.op = "bind" /\ heap.last.raised = "CircuitError"
    /\ DOMAIN heap.last.args = {"z"}


\* the places of compile_circuit after the test for a coupling map
MappingPlaces ==
    {"cc_swap_mapper", "cc_expand_swaps", "cc_direction_mapper", "cc_cx_cancellation",
     "cc_optimize_1q_gates"}
NoMapInEffect == ~Truthy(cc.coupling_map)

\* C23: when no coupling map is in effect for a circuit (none given to
\* compile_circuit, which is what compile hands over for "all-to-all" and
\* for a one-qubit circuit), compile_circuit returns exactly the DAG of the
\* first unroll pass with the layout null: the router, the second unroll
\* pass, the direction corrector, the cancellation and the fusion do not run,
\* and that DAG is the compiled circuit of the job entry.
C23_NoMapFirstUnrollOnly ==
    NoMapInEffect =>
        /\ pc \notin MappingPlaces
        /\ cc.passes # <<>> =>
              /\ cc.passes = <<"unroll">>
              /\ cc.compiled_dag_circuit = RouterInput
              /\ cc.final_layout = None
        /\ JustAppended =>
              /\ LastJob.compiled_circuit = RouterInput
              /\ LastJob.config.layout = None
\* compile_circuit has returned to compile, which gave it no coupling map for
\* a simulator, a DAG with a two-qubit gate that the first unroll pass changed
C23_UnrolledOnly ==
    /\ pc = "job" /\ NoMapInEffect /\ Resolved = AllToAll
    /\ cc.passes = <<"unroll">>
    /\ cc.compiled_dag_circuit.ops # cc.quantum_circuit.data
    /\ \E i \in DOMAIN cc.compiled_dag_circuit.ops : cc.compiled_dag_circuit.ops[i].name = "cx"

\* positions j < k of the batch list the same circuit object
SameCircuit(j, k) == j < k /\ list_of_circuits[j] = list_of_circuits[k]

\* C24: compiling is repeatable: when a batch lists the same circuit twice,
\* the two job entries hold identical compiled circuits, for simulator and
\* non-simulator backends alike.
C24_Repeatable ==
    \A j, k \in DOMAIN qobj.circuits :
        SameCircuit(j, k) => qobj.circuits[j].compiled_circuit = qobj.circuits[k].compiled_circuit
\* the chip compiled "bell" twice: the circuit object got its barriers at the
\* first entry and a second pair at the second, and the second compiled
\* circuit has two nodes more than the first
C24_BarriersTwice ==
    /\ ~backend_conf.simulator
    /\ Len(qobj.circuits) = 2 /\ SameCircuit(1, 2)
    /\ Given(1).name = "bell"
    /\ circuits[1].data =
          <<Gate1("h", 0), Gate2("cx", 0, 1), Barrier(0), Barrier(1), Barrier(0), Barrier(1),
            Measure(0), Measure(1)>>
    /\ Len(qobj.circuits[2].compiled_circuit.ops) = Len(qobj.circuits[1].compiled_circuit.ops) + 2
\* a simulator compiled "bell" twice, with identical compiled circuits
C24_SimulatorTwice ==
    /\ backend_conf.simulator
    /\ Len(qobj.circuits) = 2 /\ SameCircuit(1, 2)
    /\ Given(1).name = "bell"
    /\ qobj.circuits[2].compiled_circuit = qobj.circuits[1].compiled_circuit


\* compile raised the measurement-ordering error for the circuit at position k
OrderingRaisedAt(k) == RaisedAt(k) /\ k >= 1 /\ error = MeasurementOrderingError(k)
\* compile raised for the hpc block
HpcRaised == RaisedInHeader /\ HpcMalformed(compile_config.backend, compile_config.hpc)

\* C25: when compile raises for a measurement-ordering violation in a
\* circuit, that circuit's operation list is as it was before the call: no
\* barrier has been inserted into it; and when compile raises for a
\* malformed hpc block, no circuit of the batch has been looked at or
\* changed: the loop has not started, compile_circuit has not been called
\* and every operation list is as it was given.
C25_RaisingCircuitUntouched ==
    /\ \A k \in DOMAIN list_of_circuits :
          OrderingRaisedAt(k) =>
              /\ circuits[list_of_circuits[k]] = Given(k)
              /\ \A i \in DOMAIN circuits[list_of_circuits[k]].data :
                    circuits[list_of_circuits[k]].data[i].name # "barrier"
    /\ HpcRaised =>
          /\ circuits = circuits0
          /\ idx = 0
          /\ cc = NoFrame
          /\ qobj.circuits = <<>>
\* the chip raised for "late" at the second position, after it had put the
\* barriers into "bell" at the first
C25_RaisedAfterBarriers ==
    /\ OrderingRaisedAt(2)
    /\ Given(1).name = "bell" /\ Given(2).name = "late"
    /\ circuits[1] # Given(1)
    /\ circuits[2] = Given(2)
\* compile raised for an hpc block with one key, with two circuits in the batch
C25_HpcRaisedOnBatch ==
    /\ HpcRaised /\ ~IsNone(compile_config.hpc)
    /\ Len(list_of_circuits) = 2
    /\ Given(2).name = "late"


\* the configuration overrides the basis with fewer than two fields
OneField ==
    Truthy(compile_config.basis_gates) /\ Len(Split(compile_config.basis_gates.val)) < 2

\* C26: a basis_gates override of fewer than two comma-separated fields (the
\* deprecated 'SU2+CNOT', and any single gate name) is replaced by
\* 'u1,u2,u3,cx,id': the replacement raises nothing (compile raises only for
\* the hpc block or for the order of measurements), it is the basis
\* compile_circuit is called with, and it is the basis of every job entry.
C26_OneFieldBasisReplaced ==
    OneField =>
        /\ HeaderBuilt => basis_gates = Some(DefaultBasisGates)
        /\ cc # NoFrame => cc.basis_gates = Some(DefaultBasisGates)
        /\ \A k \in DOMAIN qobj.circuits :
              qobj.circuits[k].config.basis_gates = Some(DefaultBasisGates)
        /\ pc = "raised" => (HpcRaised \/ \E k \in DOMAIN list_of_circuits : OrderingRaisedAt(k))
\* compile has returned two job entries for the override 'SU2+CNOT'
C26_DeprecatedReplaced ==
    /\ compile_config.basis_gates = Some(<<"SU2+CNOT">>)
    /\ result # None /\ Len(qobj.circuits) = 2
    /\ qobj.circuits[1].config.basis_gates = Some(DefaultBasisGates)
    /\ qobj.circuits[2].config.basis_gates = Some(DefaultBasisGates)
\* compile has returned a job entry for the override 'u3', a single gate name
C26_SingleGateReplaced ==
    /\ compile_config.basis_gates = Some(<<"u3">>)
    /\ result # None
    /\ qobj.circuits[1].config.basis_gates = Some(DefaultBasisGates)


\* an operation list with each swap written out as its three cx
RECURSIVE ThreeCxForSwap(_)
ThreeCxForSwap(ops) ==
    IF ops = <<>> THEN <<>>
    ELSE LET op == Head(ops)
             a == op.qargs[1]
             b == op.qargs[2]
         IN (IF op.name = "swap"
             THEN <<Gate2("cx", a, b), Gate2("cx", b, a), Gate2("cx", a, b)>>
             ELSE <<op>>) \o ThreeCxForSwap(Tail(ops))
CountOf(name, ops) == Cardinality({i \in DOMAIN ops : ops[i].name = name})
\* the second unroll pass has just run
SwapsExpanded == pc = "cc_direction_mapper" /\ cc.passes = <<"unroll", "swap_mapper", "unroll">>

\* C27: a SWAP on qubits (a, b) with phase angle zero expands to exactly
\* cx a,b; cx b,a; cx a,b; so after the second unroll pass, with swap outside
\* the basis, no swap node remains, every SWAP the router inserted stands as
\* those three cx nodes in its place, on its two qubits only, and every other
\* node is as the router left it.
C27_SwapIsThreeCx ==
    SwapsExpanded =>
        /\ CountOf("swap", cc.compiled_dag_circuit.ops) = 0
        /\ CountOf("swap", Sequential.ops) = cc.swaps
        /\ cc.compiled_dag_circuit.ops = ThreeCxForSwap(Sequential.ops)
        /\ CountOf("cx", cc.compiled_dag_circuit.ops)
               = CountOf("cx", Sequential.ops) + 3 * cc.swaps
\* the second unroll pass has expanded two SWAPs the router inserted
C27_TwoSwapsExpanded ==
    /\ SwapsExpanded
    /\ cc.swaps = 2
    /\ CountOf("cx", cc.compiled_dag_circuit.ops) = CountOf("cx", RouterInput.ops) + 6


\* the names a gate decomposes into, directly or through other rules
RECURSIVE NamesBelow(_, _)
NamesBelow(S, k) ==
    IF k = 0 THEN S
    ELSE NamesBelow(S \cup UNION {DefinitionNames(m) : m \in S \cap DefinedGates}, k - 1)
DecomposesInto(name) == NamesBelow(DefinitionNames(name), Cardinality(DefinedGates))
Acyclic == \A name \in DefinedGates : name \notin DecomposesInto(name)
\* the gate compile_circuit was called on
CatalogGate == cc.quantum_circuit.data[1]
\* every node acts on qubits of that gate only
InOwnFrame ==
    \A i \in DOMAIN cc.compiled_dag_circuit.ops :
        Range(cc.compiled_dag_circuit.ops[i].qargs) \subseteq Range(CatalogGate.qargs)
\* the pass is over, and what is left is in the basis, opaque or without a rule
Settled ==
    /\ pc = "cc_done"
    /\ ExpandableNodes(cc.compiled_dag_circuit.ops, Names(cc.basis)) = {}

\* C29: unrolling terminates for every gate of the catalog: the "decomposes
\* into" relation of the rules is acyclic (cswap -> ccx, cx; ccx -> h, t, tdg,
\* cx; cy -> sdg, s, cx), every operation a substitution puts in acts only on
\* operands of the gate being unrolled, and the expansion of a gate toward
\* u1,u2,u3,cx,id (and toward u3,cx) comes, after finitely many
\* substitutions, to a DAG of basis, opaque and rule-less gates only.
C29_UnrollingTerminates ==
    /\ [](Acyclic /\ InOwnFrame)
    /\ [](/\ DefinitionNames("cswap") = {"ccx", "cx"}
          /\ DefinitionNames("ccx") = {"h", "t", "tdg", "cx"}
          /\ DefinitionNames("cy") = {"sdg", "s", "cx"})
    /\ <>[]Settled
\* a cswap has been unrolled, through ccx and h, to seventeen nodes
C29_FredkinUnrolled ==
    /\ Settled
    /\ CatalogGate.name = "cswap"
    /\ Len(cc.compiled_dag_circuit.ops) = 17
    /\ \A i \in DOMAIN cc.compiled_dag_circuit.ops :
          cc.compiled_dag_circuit.ops[i].name \in {"cx", "u2", "t", "tdg"}


\* the name of a gate's inverse, and its angles: s and sdg change places;
\* rx, rz, crz, cry, cu1, u1 (and rv) negate their angles; cu3 negates its
\* angles and swaps the last two; every other gate maps to itself
InverseName(name) == CASE name = "s" -> "sdg" [] name = "sdg" -> "s" [] OTHER -> name
Negated(params) == [i \in DOMAIN params |-> 0 - params[i]]
InverseParams(name, params) ==
    CASE name = "cu3" -> <<0 - params[1], 0 - params[3], 0 - params[2]>>
      [] name \in {"rx", "rz", "crz", "cry", "cu1", "u1", "rv"} -> Negated(params)
      [] OTHER -> params
\* object i was returned by inverse() of object j
InverseAt(i, j) == i \in DOMAIN heap.made /\ j \in DOMAIN heap.made /\ heap.made[i] = j

\* C30: inverse() never changes its receiver and returns a new gate of the
\* same number of qubits, named and parametrized as the table above says;
\* and the inverse of the inverse of a gate has the gate's name and
\* parameters.
C30_InverseInvolution ==
    /\ heap.objs = heap.given
    /\ heap.last.op = "inverse" =>
          /\ heap.last.returned = Len(heap.objs)
          /\ heap.last.returned # heap.last.on
          /\ InverseAt(heap.last.returned, heap.last.on)
    /\ \A i, j \in DOMAIN heap.objs :
          InverseAt(i, j) =>
              /\ heap.objs[i].tag = "Gate"
              /\ heap.objs[i].num_qubits = heap.objs[j].num_qubits
              /\ heap.objs[i].name = InverseName(heap.objs[j].name)
              /\ heap.objs[i].params = InverseParams(heap.objs[j].name, heap.objs[j].params)
    /\ \A i, j, k \in DOMAIN heap.objs :
          (InverseAt(i, j) /\ InverseAt(j, k)) =>
              /\ heap.objs[i].name = heap.objs[k].name
              /\ heap.objs[i].params = heap.objs[k].params
              /\ heap.objs[i].num_qubits = heap.objs[k].num_qubits
\* the caller holds cu3(1, 0, -1), its inverse cu3(-1, 1, 0) and the inverse
\* of that
C30_Cu3ThereAndBack ==
    /\ Len(heap.objs) = 3
    /\ InverseAt(2, 1) /\ InverseAt(3, 2)
    /\ heap.objs[1].name = "cu3" /\ heap.objs[1].params = <<1, 0, -1>>
    /\ heap.objs[2].params = <<-1, 1, 0>>
    /\ heap.objs[3].params = <<1, 0, -1>>
\* the caller holds an s gate, the sdg its inverse() returned, and the s
\* that one's inverse() returned
C30_SThereAndBack ==
    /\ Len(heap.objs) = 3
    /\ InverseAt(2, 1) /\ InverseAt(3, 2)
    /\ heap.objs[1].name = "s" /\ heap.objs[2].name = "sdg" /\ heap.objs[3].name = "s"


IsId(op) == op.name = "id"
IdNodes(ops) == SelectSeq(ops, IsId)
\* what the pass makes of a part of the circuit
UnrolledPart(data, from, to) == UnrollSeq(SubSeq(data, from, to), Names(cc.basis), MaxDepth).ops

\* C28: the identity gate id is opaque.  It has no decomposition rule; the
\* inverse of an id gate is an id gate (one qubit, no parameters; the same
\* gate when its phase is zero); and an unroll pass, whether or not id is in
\* the basis, never fails for an id and leaves each id node where it was:
\* the DAG after the pass is what the pass makes of the operations before
\* the id, then the id itself, then what it makes of those after it, so on
\* every wire the id nodes are those of the circuit.
C28_IdOpaque ==
    /\ ~HasDefinition("id") /\ Definition(Gate1("id", 0)) = <<>>
    /\ inverse(IGate).value = IGate /\ inverse(IdGate(0)).value = IdGate(0)
    /\ \A p \in Phases :
          /\ inverse(IdGate(p)).value.name = "id"
          /\ inverse(IdGate(p)).value.params = <<>>
          /\ inverse(IdGate(p)).value.num_qubits = 1
    /\ pc = "raised" => error.gate # "id"
    /\ cc.passes # <<>> =>
          /\ \A i \in DOMAIN cc.quantum_circuit.data :
                IsId(cc.quantum_circuit.data[i]) =>
                    cc.compiled_dag_circuit.ops =
                        UnrolledPart(cc.quantum_circuit.data, 1, i - 1)
                            \o <<cc.quantum_circuit.data[i]>>
                            \o UnrolledPart(cc.quantum_circuit.data, i + 1,
                                            Len(cc.quantum_circuit.data))
          /\ \A w \in 0..(cc.quantum_circuit.nq - 1) :
                IdNodes(WireChain(cc.compiled_dag_circuit.ops, w))
                    = IdNodes(WireChain(cc.quantum_circuit.data, w))
\* the pass ran with the basis u3,cx on z q[0]; id q[0]: the z went down to a
\* u3 and the id stands behind it
C28_IdLeftBehindZ ==
    /\ cc.passes = <<"unroll">>
    /\ Names(cc.basis) = {"u3", "cx"}
    /\ cc.quantum_circuit.data = <<Gate1("z", 0), Gate1("id", 0)>>
    /\ cc.compiled_dag_circuit.ops = <<Op("u3", <<0>>, <<"0", "0", "pi">>), Gate1("id", 0)>>

====
